---- MODULE Spec2Model ----
(***************************************************************************)
(* A model of the StockScreener application: the usage tracker and the     *)
(* rate-aware fetcher of utils/dataService.ts, the IndexedDB cache of      *)
(* utils/storageService.ts, the pattern engine (utils/analysis.ts) and the *)
(* scan / sync orchestrators of App.tsx.                                   *)
(*                                                                         *)
(* Time is the wall clock in milliseconds since local midnight of day 0.   *)
(* Prices are integers; ratios are exact fractions [n, d].                 *)
(***************************************************************************)
EXTENDS Integers, Sequences, FiniteSets, TLC

VARIABLES
    now,          \* the wall clock (new Date() / Date.now()), in ms
    ticks,        \* how many times the clock has advanced (bounds the model)
    tracking,     \* localStorage[TRACKING_KEY]: <<>> (no item) or <<data>>
    usageStats,   \* App's usageStats state: the last getUsageStats() result
    events,       \* history of record() calls and upstream requests
    calls,        \* how many fetchStockData calls have been started
    fetch,        \* per caller: the state of its fetchStockData call
    idb,          \* the IndexedDB database of storageService
    step,         \* App's step state: which view is shown
    filteredWatchlist,  \* App's filtered symbol list
    selectedStrategy,   \* the id of App's selected strategy
    scan,         \* the locals of the running startScan() and its history
    allAnalyses,  \* App's allAnalyses state
    chartDataCache,     \* App's chartDataCache state
    selectedSymbol,     \* App's selectedSymbol state: <<>> (null) or <<s>>
    lastAlert,    \* the message of the last window.alert()
    sync,         \* the locals of the running handleSync() and its history
    dbLastUpdated,      \* App's dbLastUpdated state: <<>> (null) or <<t>>
    kv,           \* what a key-value map holds after the same cache calls
    engine,       \* the series given to the pattern engine and its results
    ai            \* App's aiRationale and isAiLoading, and the requests in flight

appVars == <<idb, step, filteredWatchlist, selectedStrategy, scan,
             allAnalyses, chartDataCache, selectedSymbol, lastAlert>>

restVars == <<sync, dbLastUpdated, kv, engine, ai>>

vars == <<now, ticks, tracking, usageStats, events, calls, fetch, appVars,
          restVars>>

----------------------------------------------------------------------------
(* Bounds of the model *)

MaxTicks == 3
MaxRecords == 4
MaxCalls == 2
MaxMinutes == 1

----------------------------------------------------------------------------
(* The wall clock: Date#getMinutes, Date#getHours, Date#toDateString *)

MsPerSecond == 1000
MinutesPerHour == 60
HoursPerDay == 24
MsPerMinute == 60 * MsPerSecond
MsPerHour == MinutesPerHour * MsPerMinute
MsPerDay == HoursPerDay * MsPerHour

toDateString(t) == t \div MsPerDay
getHours(t) == (t \div MsPerHour) % HoursPerDay
getMinutes(t) == (t \div MsPerMinute) % MinutesPerHour

\* The calendar minute, hour and day that an instant lies in.
CalendarMinute(t) == t \div MsPerMinute
CalendarHour(t) == t \div MsPerHour
CalendarDay(t) == t \div MsPerDay

ClockSteps == {MsPerSecond, MsPerMinute, MsPerHour, MsPerDay}
StartTimes == {0, MsPerDay - MsPerSecond}

----------------------------------------------------------------------------
(* UsageTracker: utils/dataService.ts *)

getInitialTracking(t) ==
    [dailyCount |-> 0, hourlyCount |-> 0, minuteCount |-> 0,
     lastDay |-> toDateString(t), lastHour |-> getHours(t),
     lastMinute |-> getMinutes(t)]

\* The three rollover checks of updateUsage, one after the other.
RollDay(data, t) ==
    IF data.lastDay # toDateString(t)
    THEN [data EXCEPT !.dailyCount = 0, !.lastDay = toDateString(t)]
    ELSE data

RollHour(data, t) ==
    IF data.lastHour # getHours(t)
    THEN [data EXCEPT !.hourlyCount = 0, !.lastHour = getHours(t)]
    ELSE data

ResetMinuteAlways(data, t) ==
    [data EXCEPT !.minuteCount = 0, !.lastMinute = getMinutes(t)]

RollMinute(data, t) ==
    IF data.lastMinute # getMinutes(t)
    THEN [data EXCEPT !.minuteCount = 0, !.lastMinute = getMinutes(t)]
    ELSE data

Increment(data) ==
    [data EXCEPT !.dailyCount = @ + 1, !.hourlyCount = @ + 1,
                 !.minuteCount = @ + 1]

\* An updateUsage that does not read the stored item.
updateUsageFromScratch(raw, t) == <<Increment(getInitialTracking(t))>>

\* updateUsage(): the new value of the stored item, given the old one.
updateUsage(raw, t) ==
    LET data == IF raw # <<>> THEN raw[1] ELSE getInitialTracking(t)
    IN  <<Increment(RollMinute(RollHour(RollDay(data, t), t), t))>>

StatsIgnoringMarkers(raw, t) ==
    IF raw = <<>>
    THEN [daily |-> 0, hourly |-> 0, minute |-> 0]
    ELSE [daily |-> raw[1].dailyCount, hourly |-> raw[1].hourlyCount,
          minute |-> raw[1].minuteCount]

getUsageStats(raw, t) ==
    IF raw = <<>>
    THEN [daily |-> 0, hourly |-> 0, minute |-> 0]
    ELSE LET data == raw[1]
         IN  [daily |-> IF data.lastDay = toDateString(t)
                        THEN data.dailyCount ELSE 0,
              hourly |-> IF data.lastHour = getHours(t)
                         THEN data.hourlyCount ELSE 0,
              minute |-> IF data.lastMinute = getMinutes(t)
                         THEN data.minuteCount ELSE 0]

----------------------------------------------------------------------------
(* MarketDataFetcher: the state of a fetchStockData call *)

\* Who may have a fetchStockData call running.
Callers == {"a", "b", "scan", "sync"}
Symbols == {"INFY", "TCS", "WIPRO"}

\* HTTP statuses the upstream may answer with; NoStatus stands for a
\* fetch() that rejects (no response at all).
NoStatus == 0
Ok == 200
TooManyRequests == 429
ServerError == 500
Statuses == {Ok, TooManyRequests, ServerError}
ResponseOk(status) == status >= 200 /\ status <= 299

FirstBackoff == 2000
SecondBackoff == 4000

\* JavaScript values of a payload cell: a number >= 0, null or undefined.
Null == -1
Undefined == -2
Truthy(v) == v > 0
OrElse(a, b) == IF Truthy(a) THEN a ELSE b
At(column, i) == IF i \in DOMAIN column THEN column[i] ELSE Undefined

SecondsPerDay == 86400
Day(n) == n * SecondsPerDay

Fields == {"timestamp", "open", "high", "low", "close", "volume", "adjclose"}
RequiredFields == Fields \ {"adjclose"}

\* A response body.  json: response.json() resolves; result: the object
\* json.chart.result[0] with its indicators.quote[0] exists; has: which of
\* the columns are present in it.
Body(json, result, has, ts, o, h, l, c, v, a) ==
    [json |-> json, result |-> result, has |-> has, timestamp |-> ts,
     open |-> o, high |-> h, low |-> l, close |-> c, volume |-> v,
     adjclose |-> a]

NoBody == Body(FALSE, FALSE, {}, <<>>, <<>>, <<>>, <<>>, <<>>, <<>>, <<>>)

NotJson == NoBody
NoResult == Body(TRUE, FALSE, {}, <<>>, <<>>, <<>>, <<>>, <<>>, <<>>, <<>>)
NoTimestamp ==
    Body(TRUE, TRUE, Fields \ {"timestamp"}, <<>>, <<100>>, <<105>>, <<95>>,
         <<102>>, <<1000>>, <<102>>)
GoodBars ==
    Body(TRUE, TRUE, Fields, <<Day(1), Day(2)>>, <<100, 101>>, <<105, 106>>,
         <<95, 96>>, <<102, 103>>, <<1000, 2000>>, <<101, 104>>)
NoAdjClose ==
    Body(TRUE, TRUE, RequiredFields, <<Day(1), Day(2)>>, <<100, 101>>,
         <<105, 106>>, <<95, 96>>, <<102, 103>>, <<1000, 2000>>, <<>>)
SomeNulls ==
    Body(TRUE, TRUE, Fields, <<Day(1), Day(2), Day(3)>>,
         <<Null, Null, 101>>, <<Null, 106, 107>>, <<Null, 96, 97>>,
         <<102, Null, 104>>, <<Null, 2000, 3000>>, <<Null, Null, 105>>)
AllNull ==
    Body(TRUE, TRUE, Fields, <<Day(1), Day(2)>>, <<Null, Null>>,
         <<Null, Null>>, <<Null, Null>>, <<Null, Null>>, <<Null, Null>>,
         <<Null, Null>>)
ZeroPrices ==
    Body(TRUE, TRUE, Fields, <<Day(1)>>, <<0>>, <<0>>, <<0>>, <<0>>, <<0>>,
         <<0>>)
ShortColumns ==
    Body(TRUE, TRUE, Fields, <<Day(1), Day(2)>>, <<100>>, <<105>>, <<95>>,
         <<102>>, <<1000>>, <<102>>)
EmptyNoColumns ==
    Body(TRUE, TRUE, {"timestamp"}, <<>>, <<>>, <<>>, <<>>, <<>>, <<>>, <<>>)
NoCloseColumn ==
    Body(TRUE, TRUE, Fields \ {"close"}, <<Day(1), Day(2)>>, <<100, 101>>,
         <<105, 106>>, <<95, 96>>, <<>>, <<1000, 2000>>, <<101, 104>>)
NoVolumeColumn ==
    Body(TRUE, TRUE, Fields \ {"volume"}, <<Day(1)>>, <<100>>, <<105>>,
         <<95>>, <<102>>, <<>>, <<102>>)

\* One bar whose raw high, low and close are null while its open and its
\* adjusted close are not.
NullCloseButAdjusted ==
    Body(TRUE, TRUE, Fields, <<Day(1)>>, <<100>>, <<Null>>, <<Null>>,
         <<Null>>, <<1000>>, <<101>>)

Bodies ==
    {NotJson, NoResult, NoTimestamp, GoodBars, NoAdjClose, SomeNulls, AllNull,
     ZeroPrices, ShortColumns, EmptyNoColumns, NoCloseColumn, NoVolumeColumn,
     NullCloseButAdjusted}

\* const adjClose = result.indicators.adjclose?.[0]?.adjclose || quotes.close
AdjCloseColumn(body) ==
    IF "adjclose" \in body.has THEN body.adjclose ELSE body.close

\* Whether building bar i raises a TypeError: an index into a column that
\* is undefined.  x[i] || quotes.close[i] reads quotes.close only when x[i]
\* is falsy.
BarThrows(body, i) ==
    LET readsClose(col) == ~Truthy(At(col, i)) /\ "close" \notin body.has
    IN  \/ "open" \notin body.has \/ readsClose(body.open)
        \/ "high" \notin body.has \/ readsClose(body.high)
        \/ "low" \notin body.has \/ readsClose(body.low)
        \/ ("adjclose" \notin body.has /\ "close" \notin body.has)
        \/ readsClose(AdjCloseColumn(body))
        \/ "volume" \notin body.has

\* The object built for timestamp i by the map callback.
MakeBar(body, i) ==
    [date |-> body.timestamp[i] \div SecondsPerDay,
     open |-> OrElse(At(body.open, i), At(body.close, i)),
     high |-> OrElse(At(body.high, i), At(body.close, i)),
     low |-> OrElse(At(body.low, i), At(body.close, i)),
     close |-> OrElse(At(AdjCloseColumn(body), i), At(body.close, i)),
     volume |-> OrElse(At(body.volume, i), 0)]

KeepEveryBar(d) == TRUE

\* .filter(d => d.open !== null && d.close !== null)
KeepBar(d) == d.open # Null /\ d.close # Null

\* Whether the body of fetchStockData after the status check throws.
ParseThrows(body) ==
    \/ ~body.json
    \/ ~body.result
    \/ "timestamp" \notin body.has
    \/ \E i \in DOMAIN body.timestamp : BarThrows(body, i)

\* The series returned when it does not throw.
ParseData(body) ==
    SelectSeq([i \in DOMAIN body.timestamp |-> MakeBar(body, i)], KeepBar)

\* The nested retry ifs: a 429 answer to the first or the second attempt is
\* retried, after 2 s and 4 s.
RetriesOnAnyFailure(status, attempt) ==
    ~ResponseOk(status) /\ status # NoStatus /\ attempt \in {1, 2}

Retries(status, attempt) ==
    status = TooManyRequests /\ attempt \in {1, 2}

\* The same sleep before both retries.
SameBackoff(attempt) == FirstBackoff

\* sleep(2000) before the second attempt, sleep(4000) before the third.
RetryDelay(attempt) == IF attempt = 1 THEN FirstBackoff ELSE SecondBackoff

IdleFetch ==
    [pc |-> "idle", call |-> 0, symbol |-> "", attempt |-> 0, wake |-> 0,
     status |-> NoStatus, respondedAt |-> 0, body |-> NoBody, data |-> <<>>]

----------------------------------------------------------------------------
(* JavaScript numbers, as far as the pattern engine needs them: exact     *)
(* fractions n/d (d > 0, lowest terms), NaN, Infinity and -Infinity.       *)

RECURSIVE Gcd(_, _)
Gcd(a, b) == IF b = 0 THEN a ELSE Gcd(b, a % b)

Abs(x) == IF x < 0 THEN -x ELSE x

Fin(n, d) ==
    LET g == Gcd(Abs(n), d)
    IN  [k |-> "fin", n |-> n \div g, d |-> d \div g]

NaN == [k |-> "nan", n |-> 0, d |-> 1]
PosInf == [k |-> "inf", n |-> 1, d |-> 1]
NegInf == [k |-> "inf", n |-> -1, d |-> 1]
Zero == Fin(0, 1)

IsNaN(x) == x.k = "nan"

\* x < y; any comparison with NaN is false.
Less(x, y) ==
    /\ ~IsNaN(x) /\ ~IsNaN(y)
    /\ IF x.k = "inf" THEN x.n < 0 /\ y # NegInf
       ELSE IF y.k = "inf" THEN y.n > 0
       ELSE x.n * y.d < y.n * x.d

\* x / y for finite or NaN operands: x / 0 is an infinity, 0 / 0 is NaN.
Divide(x, y) ==
    IF IsNaN(x) \/ IsNaN(y) THEN NaN
    ELSE IF y.n = 0
         THEN IF x.n = 0 THEN NaN ELSE IF x.n > 0 THEN PosInf ELSE NegInf
    ELSE IF y.n > 0 THEN Fin(x.n * y.d, x.d * y.n)
    ELSE Fin(-(x.n * y.d), x.d * (-y.n))

\* Math.max(0, x) and Math.min(100, x): NaN stays NaN.
MathMax0(x) == IF IsNaN(x) THEN NaN ELSE IF Less(x, Zero) THEN Zero ELSE x
MathMin100(x) ==
    IF IsNaN(x) THEN NaN ELSE IF Less(Fin(100, 1), x) THEN Fin(100, 1) ELSE x

\* x || 0
OrZero(x) == IF IsNaN(x) THEN Zero ELSE x

----------------------------------------------------------------------------
(* PatternEngine: utils/analysis.ts *)

lookback == 20

Max(a, b) == IF a >= b THEN a ELSE b
Min(a, b) == IF a <= b THEN a ELSE b

\* data.slice(from, to) on 1-based positions from..to.
Slice(data, from, to) == SubSeq(data, from, to)

\* The blocks pushed for bar k with the strength left as a ratio, not
\* multiplied by 100.
BlocksAtAsRatio(data, k) ==
    LET current == data[k]
        prev == data[k - 1]
        after == data[k + 3]
        isSwingLow == current.low < prev.low /\ current.low < data[k + 1].low
        isSwingHigh ==
            current.high > prev.high /\ current.high > data[k + 1].high
        bullish ==
            IF isSwingLow /\ 1000 * after.close > 1015 * current.high
            THEN <<[type |-> "bullish",
                    top |-> Max(current.open, current.close),
                    bottom |-> current.low,
                    startTime |-> current.date,
                    isMitigated |-> FALSE,
                    strength |-> Divide(Fin(after.close - current.low, 1),
                                        Fin(current.low, 1))]>>
            ELSE <<>>
        bearish ==
            IF isSwingHigh /\ 1000 * after.close < 985 * current.low
            THEN <<[type |-> "bearish",
                    top |-> current.high,
                    bottom |-> Min(current.open, current.close),
                    startTime |-> current.date,
                    isMitigated |-> FALSE,
                    strength |-> Divide(Fin(current.high - after.close, 1),
                                        Fin(current.high, 1))]>>
            ELSE <<>>
    IN  bullish \o bearish

\* The blocks pushed for bar k (k = i + 1 for the loop index i).
BlocksAt(data, k) ==
    LET current == data[k]
        prev == data[k - 1]
        after == data[k + 3]
        isSwingLow == current.low < prev.low /\ current.low < data[k + 1].low
        isSwingHigh ==
            current.high > prev.high /\ current.high > data[k + 1].high
        bullish ==
            IF isSwingLow /\ 1000 * after.close > 1015 * current.high
            THEN <<[type |-> "bullish",
                    top |-> Max(current.open, current.close),
                    bottom |-> current.low,
                    startTime |-> current.date,
                    isMitigated |-> FALSE,
                    strength |-> Divide(Fin(100 * (after.close - current.low),
                                            1),
                                        Fin(current.low, 1))]>>
            ELSE <<>>
        bearish ==
            IF isSwingHigh /\ 1000 * after.close < 985 * current.low
            THEN <<[type |-> "bearish",
                    top |-> current.high,
                    bottom |-> Min(current.open, current.close),
                    startTime |-> current.date,
                    isMitigated |-> FALSE,
                    strength |-> Divide(Fin(100 * (current.high - after.close),
                                            1),
                                        Fin(current.high, 1))]>>
            ELSE <<>>
    IN  bullish \o bearish

\* for (let i = lookback; i < data.length - 5; i++)
RECURSIVE BlocksFrom(_, _)
\* A loop that leaves only the three bars the impulse test reads.
BlocksUpToLastThree(data, k) ==
    IF k > Len(data) - 3 THEN <<>>
    ELSE BlocksAt(data, k) \o BlocksFrom(data, k + 1)

BlocksFrom(data, k) ==
    IF k > Len(data) - 5 THEN <<>>
    ELSE BlocksAt(data, k) \o BlocksFrom(data, k + 1)

\* data.findIndex(d => d.date === ob.startTime) + 1, as a 1-based position:
\* the bar after the first one with that date, the first bar if none has.
CheckStart(data, ob) ==
    LET found == {j \in DOMAIN data : data[j].date = ob.startTime}
    IN  IF found = {} THEN 1
        ELSE 1 + CHOOSE j \in found : \A m \in found : j <= m

\* Mitigation judged by the latest bar alone.
MitigatedByLastBar(data, ob) ==
    \/ ob.type = "bullish" /\ data[Len(data)].low < ob.bottom
    \/ ob.type = "bearish" /\ data[Len(data)].high > ob.top

\* Mitigation as soon as a later bar touches the boundary.
MitigatedOnTouch(data, ob) ==
    \E j \in CheckStart(data, ob)..Len(data) :
        \/ ob.type = "bullish" /\ data[j].low <= ob.bottom
        \/ ob.type = "bearish" /\ data[j].high >= ob.top

\* for (let j = checkStartIdx; j < data.length; j++): any bar after the
\* block's origin that breaches it.
Mitigated(data, ob) ==
    \E j \in CheckStart(data, ob)..Len(data) :
        \/ ob.type = "bullish" /\ data[j].low < ob.bottom
        \/ ob.type = "bearish" /\ data[j].high > ob.top

\* data[data.length - 1].close of an empty series raises a TypeError.
detectOrderBlocksThrows(data) == Len(data) = 0

detectOrderBlocks(data) ==
    LET obs == BlocksFrom(data, lookback + 1)
    IN  [b \in DOMAIN obs |->
            [obs[b] EXCEPT !.isMitigated = Mitigated(data, obs[b])]]

RECURSIVE Sum(_)
Sum(numbers) ==
    IF numbers = <<>> THEN 0 ELSE Head(numbers) + Sum(Tail(numbers))

\* slice.reduce(...) / slice.length: 0 / 0 for an empty slice.
getAvgRange(slice) ==
    Divide(Fin(Sum([i \in DOMAIN slice |-> slice[i].high - slice[i].low]), 1),
           Fin(Len(slice), 1))

getAvgVol(slice) ==
    Divide(Fin(Sum([i \in DOMAIN slice |-> slice[i].volume]), 1),
           Fin(Len(slice), 1))

detectVCP(data) ==
    LET n == Len(data)
        recent == Slice(data, Max(n - lookback, 0) + 1, n)
        older == Slice(data, Max(n - 2 * lookback, 0) + 1,
                       Max(n - lookback, 0))
        contractionRatio ==
            Divide(getAvgRange(recent), getAvgRange(older))
        volumeRatio ==
            Divide(getAvgVol(recent), getAvgVol(older))
        spread == IF contractionRatio.k = "fin"
                  THEN Fin(200 * (contractionRatio.d - contractionRatio.n),
                           contractionRatio.d)
                  ELSE IF IsNaN(contractionRatio) THEN NaN
                  ELSE IF contractionRatio = PosInf THEN NegInf ELSE PosInf
    IN  [isVCP |-> Less(contractionRatio, Fin(75, 100))
                   /\ Less(volumeRatio, Fin(9, 10)),
         contractionRatio |-> contractionRatio,
         volumeRatio |-> volumeRatio,
         tightnessScore |-> MathMin100(MathMax0(spread))]

\* recent[recent.length - 1].volume of an empty series raises a TypeError.
calculateFundamentalScoreThrows(data) == Len(data) = 0

\* (d.close - prev.close) / prev.close > 0
PositiveReturn(prev, d) ==
    Less(Zero, Divide(Fin(d.close - prev.close, 1), Fin(prev.close, 1)))

\* (positiveDays / returns.length) * 100: returns has one entry per bar of
\* the window, the first of them 0.
trendQuality(data) ==
    LET n == Len(data)
        recent == Slice(data, Max(n - 60, 0) + 1, n)
        positiveDays ==
            Cardinality({i \in 2..Len(recent) :
                            PositiveReturn(recent[i - 1], recent[i])})
    IN  Divide(Fin(100 * positiveDays, 1), Fin(Len(recent), 1))

\* Math.round(trendQuality * 0.7 + volScore * 0.3), where
\*   trendQuality = positiveDays / N * 100 and
\*   volScore = max(0, 100 - |lastVolume - meanVolume| / 1000000).
\* With A = |N * lastVolume - sumVolume| that is
\*   floor(70 p / N + 1/2)                       when A / N >= 100000000,
\*   floor(70 p / N + 30 - 3 A / (10^7 N) + 1/2)  otherwise.
calculateFundamentalScore(data) ==
    LET n == Len(data)
        recent == Slice(data, Max(n - 60, 0) + 1, n)
        N == Len(recent)
        positiveDays ==
            Cardinality({i \in 2..N : PositiveReturn(recent[i - 1], recent[i])})
        A == Abs(N * recent[N].volume
                 - Sum([i \in DOMAIN recent |-> recent[i].volume]))
        half == 140 * positiveDays + 61 * N
    IN  IF A \div N >= 100000000
        THEN (140 * positiveDays + N) \div (2 * N)
        ELSE (half \div (2 * N))
             + (((half % (2 * N)) * 5000000 - 3 * A) \div (10000000 * N))

\* x - y
Minus(x, y) == Fin(x.n * y.d - y.n * x.d, x.d * y.d)

\* x + y
Plus(x, y) == Fin(x.n * y.d + y.n * x.d, x.d * y.d)

\* x * y
Times(x, y) == Fin(x.n * y.n, x.d * y.d)

StrategyIDs == {"ob_detection", "vcp_breakout"}

calculateStrategyScore(analysis, currentPrice, strategy) ==
    LET activeOBs == SelectSeq(analysis.orderBlocks,
                               LAMBDA ob : ~ob.isMitigated)
        nearOB ==
            \E b \in DOMAIN activeOBs :
                /\ activeOBs[b].type = "bullish"
                /\ 100 * currentPrice >= 99 * activeOBs[b].bottom
                /\ 100 * currentPrice <= 105 * activeOBs[b].top
        bullish == analysis.trend = "bullish"
        score ==
            IF strategy = "ob_detection"
            THEN Fin((IF nearOB THEN 70 ELSE 0) + (IF bullish THEN 30 ELSE 0),
                     1)
            ELSE IF strategy = "vcp_breakout"
            THEN Plus(Plus(Fin(IF analysis.vcp.isVCP THEN 60 ELSE 0, 1),
                           Times(OrZero(analysis.vcp.tightnessScore),
                                 Fin(3, 10))),
                      Fin(IF bullish THEN 10 ELSE 0, 1))
            ELSE Zero
    IN  MathMin100(score)

----------------------------------------------------------------------------
(* App.tsx: the watchlist, cached series, and the analysis of one symbol *)

NSE_WATCHLIST == <<"INFY", "TCS", "WIPRO">>

\* NSE_WATCHLIST.filter(...): a sublist of the watchlist, in its order.
RECURSIVE Sublists(_)
Sublists(list) ==
    IF list = <<>> THEN {<<>>}
    ELSE LET rest == Sublists(Tail(list))
         IN  rest \cup {<<Head(list)>> \o r : r \in rest}

\* Series an IndexedDB entry may hold.
Flat(n) ==
    [i \in 1..n |-> [date |-> i, open |-> 100, high |-> 105, low |-> 95,
                     close |-> 100, volume |-> 1000]]
EmptySeries == Flat(0)
OneBar == Flat(1)
TwoBars == Flat(2)
\* One wide, heavy bar followed by twenty tight, light ones.
Contracting ==
    [i \in 1..21 |->
        IF i = 1
        THEN [date |-> i, open |-> 100, high |-> 110, low |-> 90,
              close |-> 100, volume |-> 2000]
        ELSE [date |-> i, open |-> 100, high |-> 101, low |-> 99,
              close |-> 100, volume |-> 1000]]
\* Fifty bars, each closing one above the one before.
Rising ==
    [i \in 1..50 |-> [date |-> i, open |-> 100 + i, high |-> 102 + i,
                      low |-> 99 + i, close |-> 101 + i, volume |-> 1000]]

\* A stocks entry: <<>> (no record under the key) or <<series>>.
CachedChoices ==
    {<<>>, <<EmptySeries>>, <<OneBar>>, <<TwoBars>>, <<Contracting>>,
     <<Rising>>}

\* The keys of the metadata store; a metadata entry is <<>> or <<value>>.
MetaKeys == {"lastUpdated", "schema"}
NoMetadata == [k \in MetaKeys |-> <<>>]

EmptyDb == [stocks |-> [s \in Symbols |-> <<>>], metadata |-> NoMetadata]
Stores ==
    {[stocks |-> f, metadata |-> NoMetadata] : f \in [Symbols -> CachedChoices]}

\* request.result || null: <<>> stands for null.
getStockData(db, symbol) == db.stocks[symbol]

\* request.result || null: a stored 0 is falsy and reads as null.
getMetadata(db, key) ==
    IF db.metadata[key] # <<>> /\ db.metadata[key][1] # 0
    THEN db.metadata[key] ELSE <<>>

\* A put that stores the series under every key of the store.
saveUnderEveryKey(db, symbol, data) ==
    [db EXCEPT !.stocks = [s \in Symbols |-> <<data>>]]

\* store.put(data, symbol) once the transaction has completed.
saveStockData(db, symbol, data) == [db EXCEPT !.stocks[symbol] = <<data>>]

\* store.put(value, key) once the transaction has completed.
saveMetadata(db, key, value) == [db EXCEPT !.metadata[key] = <<value>>]

\* The two clear() calls of clearAll once the transaction has completed.
clearAll(db) == EmptyDb

\* const cache: Record<string, OHLC[]> = {}
EmptyCache == [s \in Symbols |-> <<>>]

\* currentPrice > data[data.length - 50]?.close ? 'bullish' : 'bearish'
Trend(data) ==
    LET n == Len(data)
    IN  IF n >= 50 /\ data[n].close > data[n - 49].close
        THEN "bullish" ELSE "bearish"

\* ((currentPrice - prevPrice) / prevPrice) * 100
Change(currentPrice, prevPrice) ==
    LET q == Divide(Fin(currentPrice - prevPrice, 1), Fin(prevPrice, 1))
    IN  IF q.k = "fin" THEN Times(q, Fin(100, 1)) ELSE q

\* Whether the analysis of a series raises a TypeError: data[data.length - 1]
\* or data[data.length - 2] is undefined.
AnalysisThrows(data) ==
    \/ detectOrderBlocksThrows(data)
    \/ Len(data) < 2
    \/ calculateFundamentalScoreThrows(data)

\* The StockAnalysis pushed for a symbol.
Analysis(symbol, data, strategy) ==
    LET currentPrice == data[Len(data)].close
        prevPrice == data[Len(data) - 1].close
        analysis ==
            [symbol |-> symbol,
             price |-> currentPrice,
             change |-> Change(currentPrice, prevPrice),
             orderBlocks |-> detectOrderBlocks(data),
             vcp |-> detectVCP(data),
             trend |-> Trend(data),
             score |-> Zero,
             fundamentalScore |-> calculateFundamentalScore(data)]
    IN  [analysis EXCEPT
            !.score = calculateStrategyScore(analysis, currentPrice, strategy)]

\* An insertion that puts an analysis ahead of those of equal score.
InsertAheadOfTies(sorted, x) ==
    LET ahead == {j \in DOMAIN sorted :
                     \A m \in 1..j : Less(x.score, sorted[m].score)}
        k == Cardinality(ahead)
    IN  SubSeq(sorted, 1, k) \o <<x>> \o SubSeq(sorted, k + 1, Len(sorted))

\* x goes behind every analysis whose score is not below its own.
InsertByScore(sorted, x) ==
    LET ahead == {j \in DOMAIN sorted :
                     \A m \in 1..j : ~Less(sorted[m].score, x.score)}
        k == Cardinality(ahead)
    IN  SubSeq(sorted, 1, k) \o <<x>> \o SubSeq(sorted, k + 1, Len(sorted))

\* results.sort((a, b) => b.score - a.score); Array.prototype.sort is
\* stable, so the result is that of inserting the elements in their order.
RECURSIVE SortByScore(_)
SortByScore(results) ==
    IF results = <<>> THEN <<>>
    ELSE InsertByScore(SortByScore(SubSeq(results, 1, Len(results) - 1)),
                       results[Len(results)])

\* The locals of startScan, with what it has visited and warned about.
NoScan ==
    [pc |-> "idle", i |-> 0, results |-> <<>>, cache |-> EmptyCache,
     visited |-> <<>>, warned |-> <<>>,
     before |-> [requests |-> 0, tracking |-> <<>>]]

\* The locals of handleSync, with what it has done: one log entry per
\* symbol handled, the number of lastUpdated writes and the count reported.
NoWrite == [state |-> "none", symbol |-> "", data |-> <<>>]
NoSync ==
    [pc |-> "idle", i |-> 0, successCount |-> 0, wake |-> 0,
     write |-> NoWrite, timestamp |-> 0, startedAt |-> 0, log |-> <<>>,
     metaWrites |-> 0, reported |-> <<>>]

\* No series has been given to the pattern engine.
NoEngine ==
    [data |-> <<>>, analyzed |-> FALSE, appended |-> 0, runs |-> <<>>,
     scored |-> <<>>]

\* No rationale is shown, none is loading and none has been asked for;
\* seen holds the dependencies the rationale effect last ran with.
NoRationale ==
    [apiKey |-> TRUE, rationale |-> <<>>, loading |-> FALSE, pending |-> {},
     issued |-> 0, seen |-> <<<<>>, <<>>, "landing">>]

\* The App as mounted, in a build with or without an API key.
Mounted(lists, strategies, stores, keys) ==
    /\ idb \in stores
    /\ step = "landing"
    /\ filteredWatchlist \in lists
    /\ selectedStrategy \in strategies
    /\ scan = NoScan
    /\ allAnalyses = <<>>
    /\ chartDataCache = EmptyCache
    /\ selectedSymbol = <<>>
    /\ lastAlert = ""
    /\ sync = NoSync
    /\ dbLastUpdated = <<>>
    /\ kv = idb
    /\ ai \in {[NoRationale EXCEPT !.apiKey = key] : key \in keys}

\* The App as mounted in a build with an API key.
AppMounted(lists, strategies, stores) ==
    Mounted(lists, strategies, stores, {TRUE})

AppStart(lists, strategies, stores) ==
    AppMounted(lists, strategies, stores) /\ engine = NoEngine

AppIdle == AppStart({NSE_WATCHLIST}, {"ob_detection"}, {EmptyDb})

----------------------------------------------------------------------------
(* History *)

RecordEvents == SelectSeq(events, LAMBDA e : e.kind = "record")

----------------------------------------------------------------------------
(* The tracker on its own: record(), snapshot() and the passing of time *)

StartAt(times) ==
    /\ now \in times
    /\ ticks = 0
    /\ tracking = <<>>
    /\ usageStats = getUsageStats(<<>>, now)
    /\ events = <<>>
    /\ calls = 0
    /\ fetch = [c \in Callers |-> IdleFetch]

\* Time passes.
Tick ==
    /\ ticks < MaxTicks
    /\ \E d \in ClockSteps : now' = now + d
    /\ ticks' = ticks + 1
    /\ UNCHANGED <<tracking, usageStats, events, calls, fetch>>
    /\ UNCHANGED <<appVars, restVars>>

\* UsageTracker.record(): one call of updateUsage().
Record ==
    /\ Len(RecordEvents) < MaxRecords
    /\ tracking' = updateUsage(tracking, now)
    /\ events' = Append(events, [kind |-> "record", by |-> 0, at |-> now,
                                 after |-> tracking'[1]])
    /\ UNCHANGED <<now, ticks, usageStats, calls, fetch>>
    /\ UNCHANGED <<appVars, restVars>>

\* UsageTracker.snapshot(): App polls getUsageStats() into its state.
Snapshot ==
    /\ usageStats' = getUsageStats(tracking, now)
    /\ UNCHANGED <<now, ticks, tracking, events, calls, fetch>>
    /\ UNCHANGED <<appVars, restVars>>

UsageInit == StartAt(StartTimes) /\ AppIdle

UsageNext == Tick \/ Record \/ Snapshot

UsageSpec == UsageInit /\ [][UsageNext]_vars

----------------------------------------------------------------------------
(* fetchStockData, step by step.  A step is the code between two awaits:  *)
(* JavaScript runs it to completion, so it is one atomic action.          *)

RequestEvents == SelectSeq(events, LAMBDA e : e.kind = "request")

\* An attempt without its updateUsage() call.
AttemptWithoutRecord(c, next) ==
    /\ tracking' = tracking
    /\ events' = Append(events,
                        [kind |-> "request", by |-> next.call, at |-> now,
                         attempt |-> next.attempt,
                         answered |-> next.status,
                         answeredAt |-> next.respondedAt])
    /\ fetch' = [fetch EXCEPT ![c] = next]

\* updateUsage(); response = await fetch(proxyUrl): the usage is recorded
\* and the request is issued in the same step.  A request event notes the
\* status of the answer to the call's previous attempt, and its time.
Attempt(c, next) ==
    /\ tracking' = updateUsage(tracking, now)
    /\ events' = events \o
                 <<[kind |-> "record", by |-> next.call, at |-> now,
                    after |-> tracking'[1]],
                   [kind |-> "request", by |-> next.call, at |-> now,
                    attempt |-> next.attempt,
                    answered |-> next.status,
                    answeredAt |-> next.respondedAt]>>
    /\ fetch' = [fetch EXCEPT ![c] = next]

\* A caller calls fetchStockData(symbol): the first attempt.
StartFetch(c, symbol) ==
    /\ calls' = calls + 1
    /\ Attempt(c, [IdleFetch EXCEPT !.pc = "awaitResponse",
                                    !.call = calls + 1,
                                    !.symbol = symbol,
                                    !.attempt = 1])

\* Some code calls fetchStockData(symbol).
FetchCall(c, symbols) ==
    /\ fetch[c].pc \in {"idle", "returned", "threw"}
    /\ calls < MaxCalls
    /\ \E symbol \in symbols : StartFetch(c, symbol)
    /\ UNCHANGED <<now, ticks, usageStats>>
    /\ UNCHANGED <<appVars, restVars>>

\* What fetchStockData does with the answer to an attempt.
AfterResponse(f, status) ==
    LET g == [f EXCEPT !.status = status, !.respondedAt = now]
    IN  IF status = NoStatus
        THEN [g EXCEPT !.pc = "threw"]
        ELSE IF Retries(status, f.attempt)
        THEN [g EXCEPT !.pc = "sleeping",
                       !.wake = now + RetryDelay(f.attempt)]
        ELSE IF ~ResponseOk(status)
        THEN [g EXCEPT !.pc = "threw"]
        ELSE [g EXCEPT !.pc = "awaitJson"]

\* The upstream answers the outstanding request (or the request fails).
Respond(c, statuses) ==
    /\ fetch[c].pc = "awaitResponse"
    /\ \E status \in statuses :
          fetch' = [fetch EXCEPT ![c] = AfterResponse(fetch[c], status)]
    /\ UNCHANGED <<now, ticks, tracking, usageStats, events, calls>>
    /\ UNCHANGED <<appVars, restVars>>

\* The backoff sleep is over: the next attempt.
BackoffElapsed(c) ==
    /\ fetch[c].pc = "sleeping"
    /\ now >= fetch[c].wake
    /\ Attempt(c, [fetch[c] EXCEPT !.pc = "awaitResponse",
                                   !.attempt = @ + 1])
    /\ UNCHANGED <<now, ticks, usageStats, calls>>
    /\ UNCHANGED <<appVars, restVars>>

\* await response.json() settles and the series is built, or that throws.
JsonArrives(c, bodies) ==
    /\ fetch[c].pc = "awaitJson"
    /\ \E body \in bodies :
          fetch' = [fetch EXCEPT ![c] =
                       IF ParseThrows(body)
                       THEN [@ EXCEPT !.pc = "threw", !.body = body]
                       ELSE [@ EXCEPT !.pc = "returned", !.body = body,
                                      !.data = ParseData(body)]]
    /\ UNCHANGED <<now, ticks, tracking, usageStats, events, calls>>
    /\ UNCHANGED <<appVars, restVars>>

\* Time passes until the earliest pending backoff timer is due.
AwaitTimers ==
    /\ \E c \in Callers :
          /\ fetch[c].pc = "sleeping"
          /\ now < fetch[c].wake
          /\ \A d \in Callers :
                (fetch[d].pc = "sleeping" /\ now < fetch[d].wake) =>
                    fetch[c].wake <= fetch[d].wake
          /\ now' = fetch[c].wake
    /\ UNCHANGED <<ticks, tracking, usageStats, events, calls, fetch>>
    /\ UNCHANGED <<appVars, restVars>>

\* A minute passes while calls are running.
MinutePasses ==
    /\ ticks < MaxMinutes
    /\ now' = now + MsPerMinute
    /\ ticks' = ticks + 1
    /\ UNCHANGED <<tracking, usageStats, events, calls, fetch>>
    /\ UNCHANGED <<appVars, restVars>>

\* One caller at a time; the upstream may answer anything.
FetchNext ==
    \/ MinutePasses
    \/ AwaitTimers
    \/ FetchCall("a", Symbols)
    \/ Respond("a", Statuses \cup {NoStatus})
    \/ BackoffElapsed("a")
    \/ JsonArrives("a", Bodies)

FetchInit == StartAt(StartTimes) /\ AppIdle

FetchSpec == FetchInit /\ [][FetchNext]_vars

\* Several callers with calls running at the same time; the upstream
\* answers at once, 200 with a good body or 429, and time passes in the
\* backoff sleeps: from 23:59:57 the first sleep ends in the same minute
\* and the second one in the next day.
ConcurrentNext ==
    \/ AwaitTimers
    \/ FetchCall("a", {"INFY"})
    \/ FetchCall("b", {"TCS"})
    \/ \E c \in Callers :
          \/ Respond(c, {Ok, TooManyRequests})
          \/ BackoffElapsed(c)
          \/ JsonArrives(c, {GoodBars})

ConcurrentInit ==
    StartAt({MsPerDay - MsPerSecond - FirstBackoff}) /\ AppIdle

ConcurrentSpec == ConcurrentInit /\ [][ConcurrentNext]_vars

----------------------------------------------------------------------------
(* startScan of App.tsx.  Between two awaits the code runs to completion; *)
(* the rest of the loop after the last symbol runs in that symbol's step. *)

\* console.warn(...): the symbol yields no analysis.
Warn(s, symbol, why) ==
    [s EXCEPT !.warned = Append(@, [symbol |-> symbol, why |-> why])]

\* A failing symbol ends the whole loop.
AbortOnFailure(i, failed) ==
    IF failed THEN Len(NSE_WATCHLIST) + 1 ELSE i + 1

\* for (...; i++): the index after the try/catch, failed or not.
NextIndex(i, failed) == i + 1

\* The body of the try block once getStockData has settled: read.ok tells
\* whether the promise resolved, read.value is what it resolved with.
TryAnalyze(s, symbol, read, strategy) ==
    IF ~read.ok THEN Warn(s, symbol, "read")
    ELSE IF read.value = <<>> \/ Len(read.value[1]) = 0
    THEN Warn(s, symbol, "nodata")
    ELSE LET data == read.value[1]
             cached == [s EXCEPT !.cache[symbol] = <<data>>]
         IN  IF AnalysisThrows(data) THEN Warn(cached, symbol, "analysis")
             ELSE [cached EXCEPT
                      !.results = Append(@, Analysis(symbol, data, strategy))]

\* The body of the older startScan's try block once fetchStockData has
\* settled: there is no check for an empty series.
LegacyTryAnalyze(s, symbol, read, strategy) ==
    IF ~read.ok THEN Warn(s, symbol, "fetch")
    ELSE LET data == read.value[1]
             cached == [s EXCEPT !.cache[symbol] = <<data>>]
         IN  IF AnalysisThrows(data) THEN Warn(cached, symbol, "analysis")
             ELSE [cached EXCEPT
                      !.results = Append(@, Analysis(symbol, data, strategy))]

\* The locals as startScan enters its loop.
EnterLoop(pc) ==
    [NoScan EXCEPT !.pc = pc, !.i = 1,
                   !.visited = <<filteredWatchlist[1]>>,
                   !.before = [requests |-> Len(RequestEvents),
                               tracking |-> tracking]]

\* After the loop: sort, publish, show the results.
Finish(s) ==
    LET sorted == SortByScore(s.results)
    IN  /\ scan' = [s EXCEPT !.pc = "done", !.results = sorted]
        /\ allAnalyses' = sorted
        /\ chartDataCache' = s.cache
        /\ selectedSymbol' = IF Len(sorted) > 0 THEN <<sorted[1].symbol>>
                             ELSE selectedSymbol
        /\ step' = "results"

\* The user presses the scan button of the landing view.
startScan ==
    /\ step = "landing"
    /\ IF Len(filteredWatchlist) = 0
       THEN /\ lastAlert' = "No stocks found for the selected filters."
            /\ scan' = [NoScan EXCEPT !.pc = "refused"]
            /\ UNCHANGED step
       ELSE /\ step' = "scanning"
            /\ scan' = EnterLoop("reading")
            /\ UNCHANGED lastAlert
    /\ UNCHANGED <<now, ticks, tracking, usageStats, events, calls, fetch,
                   idb, filteredWatchlist, selectedStrategy, allAnalyses,
                   chartDataCache, selectedSymbol>>
    /\ UNCHANGED restVars

\* await storageService.getStockData(meta.symbol) settles.
ScanSymbol ==
    /\ step = "scanning"
    /\ scan.pc = "reading"
    /\ \E ok \in BOOLEAN :
          LET symbol == filteredWatchlist[scan.i]
              read == [ok |-> ok,
                       value |-> IF ok THEN getStockData(idb, symbol)
                                 ELSE <<>>]
              after == TryAnalyze(scan, symbol, read, selectedStrategy)
              failed == Len(after.warned) > Len(scan.warned)
              next == NextIndex(scan.i, failed)
          IN  IF next <= Len(filteredWatchlist)
              THEN /\ scan' = [after EXCEPT
                                 !.i = next,
                                 !.visited = Append(@, filteredWatchlist[next])]
                   /\ UNCHANGED <<step, allAnalyses, chartDataCache,
                                  selectedSymbol>>
              ELSE Finish([after EXCEPT !.i = next])
    /\ UNCHANGED <<now, ticks, tracking, usageStats, events, calls, fetch,
                   idb, filteredWatchlist, selectedStrategy, lastAlert>>
    /\ UNCHANGED restVars

\* The user leaves the results view.
BackToLanding ==
    /\ step = "results"
    /\ step' = "landing"
    /\ UNCHANGED <<now, ticks, tracking, usageStats, events, calls, fetch,
                   idb, filteredWatchlist, selectedStrategy, scan,
                   allAnalyses, chartDataCache, selectedSymbol, lastAlert>>
    /\ UNCHANGED restVars

ScanNext == startScan \/ ScanSymbol \/ BackToLanding

ScanInit ==
    StartAt({0}) /\ AppStart(Sublists(NSE_WATCHLIST), StrategyIDs, Stores)

\* A pending IndexedDB request settles and the continuation runs.
ScanSpec == ScanInit /\ [][ScanNext]_vars /\ WF_vars(ScanSymbol)

----------------------------------------------------------------------------
(* The older startScan, which awaits fetchStockData for every symbol *)

LegacyLists == {<<>>, <<"INFY">>, <<"INFY", "TCS">>}

LegacyStartScan ==
    /\ step = "landing"
    /\ IF Len(filteredWatchlist) = 0
       THEN /\ lastAlert' = "No stocks found for the selected filters."
            /\ scan' = [NoScan EXCEPT !.pc = "refused"]
            /\ UNCHANGED <<step, tracking, events, calls, fetch>>
       ELSE /\ step' = "scanning"
            /\ scan' = EnterLoop("fetching")
            /\ StartFetch("scan", filteredWatchlist[1])
            /\ UNCHANGED lastAlert
    /\ UNCHANGED <<now, ticks, usageStats, idb, filteredWatchlist,
                   selectedStrategy, allAnalyses, chartDataCache,
                   selectedSymbol>>
    /\ UNCHANGED restVars

\* await fetchStockData(meta.symbol) settles.
LegacyScanSymbol ==
    /\ step = "scanning"
    /\ scan.pc = "fetching"
    /\ fetch["scan"].pc \in {"returned", "threw"}
    /\ LET symbol == filteredWatchlist[scan.i]
           read == [ok |-> fetch["scan"].pc = "returned",
                    value |-> <<fetch["scan"].data>>]
           after == LegacyTryAnalyze(scan, symbol, read, selectedStrategy)
           next == scan.i + 1
       IN  IF next <= Len(filteredWatchlist)
           THEN /\ scan' = [after EXCEPT
                              !.i = next,
                              !.visited = Append(@, filteredWatchlist[next])]
                /\ StartFetch("scan", filteredWatchlist[next])
                /\ UNCHANGED <<step, allAnalyses, chartDataCache,
                               selectedSymbol>>
           ELSE /\ Finish([after EXCEPT !.i = next])
                /\ UNCHANGED <<tracking, events, calls, fetch>>
    /\ UNCHANGED <<now, ticks, usageStats, idb, filteredWatchlist,
                   selectedStrategy, lastAlert>>
    /\ UNCHANGED restVars

LegacyScanNext ==
    \/ LegacyStartScan
    \/ LegacyScanSymbol
    \/ AwaitTimers
    \/ Respond("scan", {Ok, TooManyRequests, NoStatus})
    \/ BackoffElapsed("scan")
    \/ JsonArrives("scan", {GoodBars, AllNull, NoResult})

LegacyScanInit ==
    StartAt({0}) /\ AppStart(LegacyLists, StrategyIDs, {EmptyDb})

LegacyScanSpec == LegacyScanInit /\ [][LegacyScanNext]_vars

----------------------------------------------------------------------------
(* handleSync of App.tsx, step by step *)

PacingDelay == 1100

\* The pacing sleep placed inside the try block: skipped after a failure.
PaceOnlyAfterSuccess(t, failed) == IF failed THEN t ELSE t + PacingDelay

\* await new Promise(resolve => setTimeout(resolve, 1100)) after the
\* try/catch, at time t: when the timer is due.
PacingWake(t, failed) == t + PacingDelay

\* storageService.saveStockData(...) called without await.
SaveNotAwaited == FALSE

\* await storageService.saveStockData(stock.symbol, data)
SaveAwaited == TRUE

\* lastUpdated written only after a sync that updated something.
OnlyIfSomeSucceeded(successCount) == successCount > 0

\* await storageService.saveMetadata('lastUpdated', timestamp) follows the
\* loop whatever the success count.
WritesLastUpdated(successCount) == TRUE

\* The log entry of the symbol being handled.
LogEntry(fetched, written, settledAt, handledAt) ==
    [symbol |-> NSE_WATCHLIST[sync.i], call |-> fetch["sync"].call,
     attempts |-> fetch["sync"].attempt,
     fetched |-> fetched, written |-> written,
     settledAt |-> settledAt, handledAt |-> handledAt]

\* The user presses the sync button of the landing view; the first
\* fetchStockData call records and issues its request in the same step.
\* One sync run is followed.
handleSync ==
    /\ step = "landing"
    /\ sync.pc = "idle"
    /\ step' = "syncing"
    /\ sync' = [NoSync EXCEPT !.pc = "fetching", !.i = 1, !.startedAt = now]
    /\ StartFetch("sync", NSE_WATCHLIST[1])
    /\ UNCHANGED <<now, ticks, usageStats, idb, filteredWatchlist,
                   selectedStrategy, scan, allAnalyses, chartDataCache,
                   selectedSymbol, lastAlert, dbLastUpdated, kv, engine, ai>>

\* await fetchStockData(stock.symbol) settles: saveStockData is called with
\* the series, or the catch logs the failure and the pacing sleep begins.
SyncFetchSettled ==
    /\ sync.pc = "fetching"
    /\ fetch["sync"].pc \in {"returned", "threw"}
    /\ IF fetch["sync"].pc = "threw"
       THEN sync' = [sync EXCEPT
                        !.pc = "pacing",
                        !.wake = PacingWake(now, TRUE),
                        !.log = Append(@, LogEntry(FALSE, FALSE, now, now))]
       ELSE LET write == [state |-> "pending",
                          symbol |-> NSE_WATCHLIST[sync.i],
                          data |-> fetch["sync"].data]
            IN  IF SaveAwaited
                THEN sync' = [sync EXCEPT
                                 !.pc = "saving",
                                 !.write = write,
                                 !.log = Append(@, LogEntry(TRUE, FALSE, now,
                                                            now))]
                ELSE sync' = [sync EXCEPT
                                 !.pc = "pacing",
                                 !.write = write,
                                 !.successCount = @ + 1,
                                 !.wake = PacingWake(now, FALSE),
                                 !.log = Append(@, LogEntry(TRUE, FALSE, now,
                                                            now))]
    /\ UNCHANGED <<now, ticks, tracking, usageStats, events, calls, fetch,
                   appVars, dbLastUpdated, kv, engine, ai>>

\* The readwrite transaction of saveStockData completes (the series is
\* stored, successCount++) or fails (the catch logs it); the pacing sleep
\* begins.
SaveSettles ==
    /\ sync.write.state = "pending"
    /\ \E ok \in BOOLEAN :
          LET k == Len(sync.log)
              entry == [sync.log[k] EXCEPT !.written = ok, !.handledAt = now]
          IN  /\ idb' = IF ok
                        THEN saveStockData(idb, sync.write.symbol,
                                           sync.write.data)
                        ELSE idb
              /\ IF sync.pc = "saving"
                 THEN sync' = [sync EXCEPT
                                  !.pc = "pacing",
                                  !.write = NoWrite,
                                  !.successCount = IF ok THEN @ + 1 ELSE @,
                                  !.wake = PacingWake(now, ~ok),
                                  !.log[k] = entry]
                 ELSE sync' = [sync EXCEPT !.write = NoWrite]
    /\ UNCHANGED <<now, ticks, tracking, usageStats, events, calls, fetch,
                   step, filteredWatchlist, selectedStrategy, scan,
                   allAnalyses, chartDataCache, selectedSymbol, lastAlert,
                   dbLastUpdated, kv, engine, ai>>

\* alert(`Sync Complete! ...`); setStep('landing')
Report(s) ==
    /\ sync' = [s EXCEPT !.pc = "done", !.reported = <<s.successCount>>]
    /\ lastAlert' = "Sync Complete!"
    /\ step' = "landing"

\* The pacing sleep is over: the next symbol's fetchStockData call, or,
\* after the last symbol, the saveMetadata call.
PacingElapsed ==
    /\ sync.pc = "pacing"
    /\ now >= sync.wake
    /\ IF sync.i < Len(NSE_WATCHLIST)
       THEN /\ sync' = [sync EXCEPT !.pc = "fetching", !.i = @ + 1]
            /\ StartFetch("sync", NSE_WATCHLIST[sync.i + 1])
            /\ UNCHANGED <<step, lastAlert, dbLastUpdated>>
       ELSE /\ IF WritesLastUpdated(sync.successCount)
               THEN /\ sync' = [sync EXCEPT !.pc = "savingMeta",
                                            !.timestamp = now]
                    /\ UNCHANGED <<step, lastAlert, dbLastUpdated>>
               ELSE /\ Report([sync EXCEPT !.timestamp = now])
                    /\ dbLastUpdated' = <<now>>
            /\ UNCHANGED <<tracking, events, calls, fetch>>
    /\ UNCHANGED <<now, ticks, usageStats, idb, filteredWatchlist,
                   selectedStrategy, scan, allAnalyses, chartDataCache,
                   selectedSymbol, kv, engine, ai>>

\* The transaction of saveMetadata completes, and the run reports and
\* returns to the landing view; or it fails, and the rejection leaves
\* handleSync.
MetaSettles ==
    /\ sync.pc = "savingMeta"
    /\ \E ok \in BOOLEAN :
          IF ok
          THEN /\ idb' = saveMetadata(idb, "lastUpdated", sync.timestamp)
               /\ dbLastUpdated' = <<sync.timestamp>>
               /\ Report([sync EXCEPT !.metaWrites = @ + 1])
          ELSE /\ sync' = [sync EXCEPT !.pc = "rejected"]
               /\ UNCHANGED <<idb, dbLastUpdated, lastAlert, step>>
    /\ UNCHANGED <<now, ticks, tracking, usageStats, events, calls, fetch,
                   filteredWatchlist, selectedStrategy, scan, allAnalyses,
                   chartDataCache, selectedSymbol, kv, engine, ai>>

\* Time passes until the pacing timer is due.
PacingTimer ==
    /\ sync.pc = "pacing"
    /\ now < sync.wake
    /\ now' = sync.wake
    /\ UNCHANGED <<ticks, tracking, usageStats, events, calls, fetch,
                   appVars, restVars>>

\* The steps the browser itself takes: timers fire, IndexedDB transactions
\* settle, continuations run.
SyncInternal ==
    \/ SyncFetchSettled
    \/ SaveSettles
    \/ PacingTimer
    \/ PacingElapsed
    \/ MetaSettles
    \/ AwaitTimers
    \/ BackoffElapsed("sync")

\* What the upstream does: it takes its time, answers, or delivers the
\* body.
SyncUpstream ==
    \/ MinutePasses
    \/ Respond("sync", {Ok, TooManyRequests, NoStatus})
    \/ JsonArrives("sync", {GoodBars, NoResult})

SyncNext == handleSync \/ SyncInternal \/ SyncUpstream

SyncInit ==
    StartAt({0}) /\ AppStart({NSE_WATCHLIST}, {"ob_detection"}, {EmptyDb})

\* The browser's own steps are taken when they can be; the upstream may
\* never answer.
SyncSpec == SyncInit /\ [][SyncNext]_vars /\ WF_vars(SyncInternal)

----------------------------------------------------------------------------
(* StorageService on its own: any sequence of cache calls.  kv holds what *)
(* a key-value map holds after the calls that completed.                  *)

SeriesValues == {EmptySeries, OneBar, TwoBars}
MetaValues == 0..2

\* saveStockData(symbol, data): the transaction completes or fails.
PutSeries ==
    /\ \E symbol \in Symbols, data \in SeriesValues, ok \in BOOLEAN :
          /\ idb' = IF ok THEN saveStockData(idb, symbol, data) ELSE idb
          /\ kv' = IF ok THEN [kv EXCEPT !.stocks[symbol] = <<data>>] ELSE kv
    /\ UNCHANGED <<now, ticks, tracking, usageStats, events, calls, fetch,
                   step, filteredWatchlist, selectedStrategy, scan,
                   allAnalyses, chartDataCache, selectedSymbol, lastAlert,
                   sync, dbLastUpdated, engine, ai>>

\* saveMetadata(key, value): the transaction completes or fails.
PutMeta ==
    /\ \E key \in MetaKeys, value \in MetaValues, ok \in BOOLEAN :
          /\ idb' = IF ok THEN saveMetadata(idb, key, value) ELSE idb
          /\ kv' = IF ok THEN [kv EXCEPT !.metadata[key] = <<value>>] ELSE kv
    /\ UNCHANGED <<now, ticks, tracking, usageStats, events, calls, fetch,
                   step, filteredWatchlist, selectedStrategy, scan,
                   allAnalyses, chartDataCache, selectedSymbol, lastAlert,
                   sync, dbLastUpdated, engine, ai>>

\* clearAll(): the transaction completes or fails.
Clear ==
    /\ \E ok \in BOOLEAN :
          /\ idb' = IF ok THEN clearAll(idb) ELSE idb
          /\ kv' = IF ok THEN EmptyDb ELSE kv
    /\ UNCHANGED <<now, ticks, tracking, usageStats, events, calls, fetch,
                   step, filteredWatchlist, selectedStrategy, scan,
                   allAnalyses, chartDataCache, selectedSymbol, lastAlert,
                   sync, dbLastUpdated, engine, ai>>

CacheNext == PutSeries \/ PutMeta \/ Clear

\* A store holding a series for every symbol.
FullDb == [stocks |-> [s \in Symbols |-> <<TwoBars>>], metadata |-> NoMetadata]

CacheInit ==
    StartAt({0}) /\ AppStart({NSE_WATCHLIST}, {"ob_detection"}, {FullDb})

CacheSpec == CacheInit /\ [][CacheNext]_vars

----------------------------------------------------------------------------
(* The App with both buttons of the landing view: scans and one sync run, *)
(* in any order, over a populated cache.                                  *)

AppNext ==
    \/ startScan
    \/ ScanSymbol
    \/ BackToLanding
    \/ handleSync
    \/ SyncInternal
    \/ Respond("sync", {Ok, TooManyRequests, ServerError})
    \/ JsonArrives("sync", {GoodBars, AllNull})

AppInit ==
    StartAt({0}) /\ AppStart({NSE_WATCHLIST}, {"ob_detection"}, {FullDb})

AppSpec == AppInit /\ [][AppNext]_vars

----------------------------------------------------------------------------
(* The results view with its AI rationale: scans, the user picking symbols *)
(* of the list, and the answers of the model arriving in any order.        *)

MaxRequests == 3

\* allAnalyses.find(a => a.symbol === selectedSymbol); <<>> for undefined.
currentAnalysis ==
    LET found == SelectSeq(allAnalyses,
                           LAMBDA a : selectedSymbol = <<a.symbol>>)
    IN  IF found = <<>> THEN <<>> ELSE <<found[1]>>

\* The dependency list of the rationale effect.
Deps == <<selectedSymbol, currentAnalysis, step>>

\* The effects of the last render have run.
EffectsFlushed == ai.seen = Deps

\* What getTradeRationale resolves with once generateContent has settled:
\* response.text, the text shown for an empty response, or one of the two
\* texts of the catch block.  It never rejects.
Answers == {"generated", "unable", "invalidKey", "unavailable"}

\* What getTradeRationale resolves with, at once, without an API key.
Disabled == "disabled"

\* The rationale effect runs after a render that changed its dependencies.
RationaleEffect ==
    /\ ~EffectsFlushed
    /\ IF currentAnalysis # <<>> /\ step = "results"
       THEN LET symbol == currentAnalysis[1].symbol
            IN  IF ai.apiKey
                THEN ai' = [ai EXCEPT
                              !.loading = TRUE,
                              !.issued = @ + 1,
                              !.pending = @ \cup {[id |-> ai.issued + 1,
                                                   symbol |-> symbol]},
                              !.seen = Deps]
                ELSE ai' = [ai EXCEPT
                              !.rationale = <<[symbol |-> symbol,
                                               text |-> Disabled]>>,
                              !.loading = FALSE,
                              !.issued = @ + 1,
                              !.seen = Deps]
       ELSE ai' = [ai EXCEPT !.seen = Deps]
    /\ UNCHANGED <<now, ticks, tracking, usageStats, events, calls, fetch,
                   appVars, sync, dbLastUpdated, kv, engine>>

\* The promise of a getTradeRationale call resolves and its then callback
\* runs: setAiRationale(rationale); setIsAiLoading(false).
RationaleArrives ==
    /\ EffectsFlushed
    /\ \E request \in ai.pending, text \in Answers :
          ai' = [ai EXCEPT
                    !.rationale = <<[symbol |-> request.symbol,
                                     text |-> text]>>,
                    !.loading = FALSE,
                    !.pending = @ \ {request}]
    /\ UNCHANGED <<now, ticks, tracking, usageStats, events, calls, fetch,
                   appVars, sync, dbLastUpdated, kv, engine>>

\* The user clicks another entry of the list: setSelectedSymbol(symbol).
SelectSymbol ==
    /\ step = "results"
    /\ EffectsFlushed
    /\ ai.issued < MaxRequests
    /\ \E a \in DOMAIN allAnalyses :
          /\ selectedSymbol # <<allAnalyses[a].symbol>>
          /\ selectedSymbol' = <<allAnalyses[a].symbol>>
    /\ UNCHANGED <<now, ticks, tracking, usageStats, events, calls, fetch,
                   idb, step, filteredWatchlist, selectedStrategy, scan,
                   allAnalyses, chartDataCache, lastAlert>>
    /\ UNCHANGED restVars

\* The handlers of the scan, each running once the effects of the render
\* before it have run.
ScanStarts == EffectsFlushed /\ ai.issued < MaxRequests /\ startScan
ScanReads == EffectsFlushed /\ ScanSymbol
ResultsLeft == EffectsFlushed /\ BackToLanding

RationaleNext ==
    \/ ScanStarts
    \/ ScanReads
    \/ ResultsLeft
    \/ RationaleEffect
    \/ SelectSymbol
    \/ RationaleArrives

RationaleInit ==
    /\ StartAt({0})
    /\ Mounted({NSE_WATCHLIST}, {"ob_detection"}, {FullDb}, BOOLEAN)
    /\ engine = NoEngine

RationaleSpec == RationaleInit /\ [][RationaleNext]_vars

----------------------------------------------------------------------------
(* The pattern engine on its own: a series grows bar by bar and the three *)
(* detectors run on every series it passes through.                        *)

MaxAppended == 5

\* Bars without any volatility.
Quiet(n) ==
    [i \in 1..n |-> [date |-> i, open |-> 100, high |-> 100, low |-> 100,
                     close |-> 100, volume |-> 1000]]

\* Twenty wide, heavy bars followed by twenty narrower, lighter ones.
Tightening ==
    [i \in 1..40 |->
        IF i <= 20
        THEN [date |-> i, open |-> 100, high |-> 105, low |-> 95,
              close |-> 100, volume |-> 2000]
        ELSE [date |-> i, open |-> 100, high |-> 104, low |-> 96,
              close |-> 100, volume |-> 1000]]

\* The next day's bar after a close of p: a rally of three points, a dip
\* that closes off its low, a sell-off, and a bar whose null low was
\* backfilled with the raw close (p - 6) above its adjusted close (p - 7).
RallyBar(p, d) ==
    [date |-> d, open |-> p + 2, high |-> p + 3, low |-> p + 2,
     close |-> p + 3, volume |-> 1000]
DipBar(p, d) ==
    [date |-> d, open |-> p - 5, high |-> p - 2, low |-> p - 10,
     close |-> p - 3, volume |-> 1500]
DropBar(p, d) ==
    [date |-> d, open |-> p - 1, high |-> p - 1, low |-> p - 20,
     close |-> p - 10, volume |-> 3000]
BackfilledLowBar(p, d) ==
    [date |-> d, open |-> p - 8, high |-> p - 4, low |-> p - 6,
     close |-> p - 7, volume |-> 1000]

\* Twenty quiet bars, a dip and the first two bars of the rally after it.
Dipped ==
    Quiet(20) \o <<DipBar(100, 21), RallyBar(97, 22), RallyBar(100, 23)>>

\* Twenty quiet bars and a bar whose low lies above its open and close.
Gapped == Quiet(20) \o <<BackfilledLowBar(100, 21)>>

BaseSeries ==
    {EmptySeries, Quiet(20), Dipped, Gapped, Quiet(45), Tightening}

NextBars(data) ==
    LET p == IF data = <<>> THEN 100 ELSE data[Len(data)].close
        d == Len(data) + 1
    IN  {RallyBar(p, d), DipBar(p, d), DropBar(p, d), BackfilledLowBar(p, d)}

\* What the three detectors do with a series: raise, or return a result.
Run(data) ==
    [n |-> Len(data),
     orderBlocksThrows |-> detectOrderBlocksThrows(data),
     orderBlocks |-> IF detectOrderBlocksThrows(data) THEN <<>>
                     ELSE detectOrderBlocks(data),
     vcp |-> detectVCP(data),
     fundamentalThrows |-> calculateFundamentalScoreThrows(data),
     trendQuality |-> trendQuality(data),
     fundamentalScore |-> IF calculateFundamentalScoreThrows(data) THEN 0
                          ELSE calculateFundamentalScore(data)]

\* The detectors run on the series as it stands.
Analyze ==
    /\ ~engine.analyzed
    /\ engine' = [engine EXCEPT !.analyzed = TRUE,
                                !.runs = Append(@, Run(engine.data))]
    /\ UNCHANGED <<now, ticks, tracking, usageStats, events, calls, fetch,
                   appVars, sync, dbLastUpdated, kv, ai>>

\* A further bar is appended to the series.
Extend ==
    /\ engine.analyzed
    /\ engine.appended < MaxAppended
    /\ \E bar \in NextBars(engine.data) :
          engine' = [engine EXCEPT !.data = Append(@, bar),
                                  !.analyzed = FALSE,
                                  !.appended = @ + 1]
    /\ UNCHANGED <<now, ticks, tracking, usageStats, events, calls, fetch,
                   appVars, sync, dbLastUpdated, kv, ai>>

EngineNext == Analyze \/ Extend

EngineInit ==
    /\ StartAt({0})
    /\ AppMounted({NSE_WATCHLIST}, {"ob_detection"}, {EmptyDb})
    /\ \E data \in BaseSeries : engine = [NoEngine EXCEPT !.data = data]

EngineSpec == EngineInit /\ [][EngineNext]_vars

----------------------------------------------------------------------------
(* calculateStrategyScore on its own, on analyses of any make.            *)

\* An order block as calculateStrategyScore reads it.
Block(type, top, bottom, isMitigated) ==
    [type |-> type, top |-> top, bottom |-> bottom, startTime |-> 21,
     isMitigated |-> isMitigated, strength |-> Fin(15, 1)]

BlockLists ==
    {<<>>,
     <<Block("bullish", 100, 90, FALSE)>>,
     <<Block("bullish", 100, 90, TRUE)>>,
     <<Block("bearish", 100, 90, FALSE)>>,
     <<Block("bullish", 93, 94, FALSE)>>,
     <<Block("bearish", 120, 110, TRUE), Block("bullish", 100, 90, FALSE)>>}

TightnessScores == {Fin(0, 1), Fin(40, 1), Fin(175, 2), Fin(100, 1)}

Prices == {50, 90, 100, 200}

Analyses ==
    [orderBlocks : BlockLists,
     trend : {"bullish", "bearish"},
     vcp : [isVCP : BOOLEAN, tightnessScore : TightnessScores]]

\* calculateStrategyScore(analysis, currentPrice, strategy) is called.
Score ==
    /\ \E analysis \in Analyses, currentPrice \in Prices,
          strategy \in StrategyIDs :
          engine' = [engine EXCEPT !.scored =
                        <<[analysis |-> analysis,
                           currentPrice |-> currentPrice,
                           strategy |-> strategy,
                           score |-> calculateStrategyScore(analysis,
                                                            currentPrice,
                                                            strategy)]>>]
    /\ UNCHANGED <<now, ticks, tracking, usageStats, events, calls, fetch,
                   appVars, sync, dbLastUpdated, kv, ai>>

ScoreInit == StartAt({0}) /\ AppIdle

ScoreSpec == ScoreInit /\ [][Score]_vars

----------------------------------------------------------------------------
(* Claims about the usage tracker (checked under UsageSpec) *)

\* How many record() calls were made in the calendar bucket (of the given
\* width in ms) that the last record() call lies in.
CallsInBucketOfLast(width) ==
    LET R == RecordEvents
    IN  Cardinality({i \in DOMAIN R :
                        R[i].at \div width = R[Len(R)].at \div width})

\* C4: after any sequence of record() calls at non-decreasing times, each
\* counter equals the number of record() calls made in the current calendar
\* minute, hour and day (a bucket change resets the counter, and a new day
\* also rolls the hour and minute counters).
C4_CountersEqualCallsInBucket ==
    tracking # <<>> =>
        /\ tracking[1].minuteCount = CallsInBucketOfLast(MsPerMinute)
        /\ tracking[1].hourlyCount = CallsInBucketOfLast(MsPerHour)
        /\ tracking[1].dailyCount = CallsInBucketOfLast(MsPerDay)

\* C5: n consecutive record() calls within one calendar minute raise the
\* minute, hour and day counters by exactly n each, without cap or reset
\* (from an empty store, n calls leave the minute counter at n), and a
\* counter decreases from one call to the next only if its calendar bucket
\* has changed between the two calls.
C5_SameMinuteCallsAddUp ==
    LET R == RecordEvents
    IN  /\ \A i, j \in DOMAIN R :
              (i < j /\ CalendarMinute(R[i].at) = CalendarMinute(R[j].at)) =>
                  /\ R[j].after.minuteCount = R[i].after.minuteCount + (j - i)
                  /\ R[j].after.hourlyCount = R[i].after.hourlyCount + (j - i)
                  /\ R[j].after.dailyCount = R[i].after.dailyCount + (j - i)
        /\ \A j \in DOMAIN R :
              CalendarMinute(R[j].at) = CalendarMinute(R[1].at) =>
                  R[j].after.minuteCount = j
        /\ \A i \in DOMAIN R : (i + 1) \in DOMAIN R =>
              /\ R[i + 1].after.minuteCount < R[i].after.minuteCount =>
                     CalendarMinute(R[i + 1].at) # CalendarMinute(R[i].at)
              /\ R[i + 1].after.hourlyCount < R[i].after.hourlyCount =>
                     CalendarHour(R[i + 1].at) # CalendarHour(R[i].at)
              /\ R[i + 1].after.dailyCount < R[i].after.dailyCount =>
                     CalendarDay(R[i + 1].at) # CalendarDay(R[i].at)
        /\ Len(R) > 0 => tracking = <<R[Len(R)].after>>

\* Three calls in one calendar minute, after an earlier call in another one.
C5_Witness ==
    LET R == RecordEvents
    IN  /\ Len(R) = 4
        /\ CalendarMinute(R[1].at) # CalendarMinute(R[2].at)
        /\ CalendarMinute(R[2].at) = CalendarMinute(R[4].at)
        /\ tracking[1].minuteCount = 3

\* C35: in every reachable tracker state and at every time, the counters
\* that snapshot() returns satisfy minute <= hourly <= daily.
C35_SnapshotCountersOrdered ==
    LET stats == getUsageStats(tracking, now)
    IN  /\ stats.minute <= stats.hourly
        /\ stats.hourly <= stats.daily

\* C6: snapshot() leaves the stored tracker state unchanged and returns, for
\* each counter, the stored count when the stored marker equals the current
\* bucket and 0 otherwise; all zeros when nothing is stored.
C6_SnapshotReadOnly ==
    [][Snapshot =>
         /\ tracking' = tracking
         /\ tracking = <<>> =>
                usageStats' = [daily |-> 0, hourly |-> 0, minute |-> 0]
         /\ tracking # <<>> =>
                /\ usageStats'.daily =
                       IF tracking[1].lastDay = toDateString(now)
                       THEN tracking[1].dailyCount ELSE 0
                /\ usageStats'.hourly =
                       IF tracking[1].lastHour = getHours(now)
                       THEN tracking[1].hourlyCount ELSE 0
                /\ usageStats'.minute =
                       IF tracking[1].lastMinute = getMinutes(now)
                       THEN tracking[1].minuteCount ELSE 0]_vars

\* A snapshot taken after the minute has rolled over but not the hour.
C6_Witness ==
    /\ tracking # <<>>
    /\ tracking[1].minuteCount > 0
    /\ usageStats.minute = 0
    /\ usageStats.hourly = tracking[1].hourlyCount
    /\ usageStats.hourly > 0

----------------------------------------------------------------------------
(* Claims about fetchStockData (checked under FetchSpec) *)

RequestsOf(call) == SelectSeq(RequestEvents, LAMBDA e : e.by = call)

\* C1: one fetch call issues at most three upstream requests, and a further
\* request only when the answer to the one before had status 429; any other
\* outcome ends the attempts.
C1_AtMostThreeRequestsEachAfter429 ==
    /\ \A call \in 1..calls :
          LET Q == RequestsOf(call)
          IN  /\ Len(Q) <= 3
              /\ \A i \in DOMAIN Q :
                    /\ Q[i].attempt = i
                    /\ i > 1 => Q[i].answered = TooManyRequests
    /\ \A c \in Callers :
          /\ fetch[c].pc = "sleeping" =>
                fetch[c].status = TooManyRequests /\ fetch[c].attempt < 3
          /\ fetch[c].pc = "awaitResponse" =>
                Len(RequestsOf(fetch[c].call)) = fetch[c].attempt

\* A call whose three requests were all answered 429.
C1_Witness ==
    /\ fetch["a"].pc = "threw"
    /\ fetch["a"].status = TooManyRequests
    /\ Len(RequestsOf(fetch["a"].call)) = 3

\* C2: every upstream request, first attempt or retry, is immediately
\* preceded by exactly one record() of the same call, so there are as many
\* record() calls as requests.
C2_RecordBeforeEveryRequest ==
    /\ \A p \in DOMAIN events :
          events[p].kind = "request" =>
              /\ p > 1
              /\ events[p - 1].kind = "record"
              /\ events[p - 1].by = events[p].by
              /\ events[p - 1].at = events[p].at
              /\ p > 2 => events[p - 2].kind = "request"
    /\ Len(RecordEvents) = Len(RequestEvents)

\* Two calls, the second one with a retry.
C2_Witness ==
    /\ calls = 2
    /\ Len(RequestsOf(1)) = 1
    /\ Len(RequestsOf(2)) = 3

\* A payload with every expected field.
WellFormed(body) ==
    body.json /\ body.result /\ RequiredFields \subseteq body.has

\* C3: fetch returns a series only if its final response is a success with
\* a well-formed payload; a non-success final response, a failed request or
\* a payload lacking expected fields makes the call fail.
C3_ReturnsOnlyOnSuccessWellFormed ==
    \A c \in Callers :
        fetch[c].pc = "returned" =>
            ResponseOk(fetch[c].status) /\ WellFormed(fetch[c].body)

\* A payload with every expected field, one cell per timestamp in every
\* column and at least one timestamp.
FullColumns(body) ==
    /\ WellFormed(body)
    /\ Len(body.timestamp) > 0
    /\ \A col \in {body.open, body.high, body.low, body.close,
                     body.volume} : Len(col) = Len(body.timestamp)
    /\ "adjclose" \in body.has => Len(body.adjclose) = Len(body.timestamp)

\* A bar whose open or close is still null after backfill.
Unusable(d) == d.open = Null \/ d.close = Null
Usable(d) == ~Unusable(d)

\* The bars of a payload after backfill, before any is dropped.
Backfilled(body) == [i \in DOMAIN body.timestamp |-> MakeBar(body, i)]

\* C22: when every bar of an otherwise well-formed payload is unusable the
\* fetch call fails instead of returning an empty series; when only some
\* bars are unusable it succeeds and returns the remaining bars in their
\* original order.
C22_AllUnusableFailsSomeUnusableDropped ==
    \A c \in Callers :
        LET f == fetch[c]
            bars == Backfilled(f.body)
        IN  (/\ f.pc \in {"returned", "threw"}
             /\ ResponseOk(f.status)
             /\ FullColumns(f.body)) =>
                IF \A i \in DOMAIN bars : Unusable(bars[i])
                THEN f.pc = "threw"
                ELSE f.pc = "returned" /\ f.data = SelectSeq(bars, Usable)

\* C29: within one fetch the second request is issued 2 s or more after
\* the first 429 response and the third one 4 s or more after the second
\* 429 response; while a backoff sleep lasts the call issues no request,
\* and its timer is set 2 s (4 s) after the response.
C29_BackoffBeforeEveryRetry ==
    /\ \A k \in DOMAIN RequestEvents :
          LET e == RequestEvents[k]
          IN  /\ e.attempt = 2 =>
                    /\ e.answered = TooManyRequests
                    /\ e.at - e.answeredAt >= FirstBackoff
              /\ e.attempt = 3 =>
                    /\ e.answered = TooManyRequests
                    /\ e.at - e.answeredAt >= SecondBackoff
    /\ \A c \in Callers :
          fetch[c].pc = "sleeping" =>
              /\ Len(RequestsOf(fetch[c].call)) = fetch[c].attempt
              /\ fetch[c].wake - fetch[c].respondedAt =
                     IF fetch[c].attempt = 1 THEN FirstBackoff
                     ELSE SecondBackoff

\* A call throttled twice: its second request follows the first 429 by
\* exactly 2 s and its third request the second 429 by exactly 4 s.
C29_Witness ==
    LET Q == RequestsOf(fetch["a"].call)
    IN  /\ Len(Q) = 3
        /\ Q[2].at - Q[2].answeredAt = FirstBackoff
        /\ Q[3].at - Q[3].answeredAt = SecondBackoff
        /\ Q[3].answeredAt >= Q[2].at

\* C30: every bar of a series returned by fetch has a non-null open, high,
\* low and close and a non-null volume: nulls are backfilled (open, high
\* and low by the bar's close, volume by 0) and a bar whose open or close
\* is still null is not in the returned series.
C30_ReturnedBarsHaveNoNull ==
    \A c \in Callers :
        fetch[c].pc = "returned" =>
            \A i \in DOMAIN fetch[c].data :
                LET d == fetch[c].data[i]
                IN  /\ d.open # Null /\ d.high # Null /\ d.low # Null
                    /\ d.close # Null /\ d.volume # Null

----------------------------------------------------------------------------
(* Claims about concurrent fetches (checked under ConcurrentSpec) *)

\* C7: whatever the interleaving of fetches running at the same time, each
\* attempt's record() is applied as a whole: two attempts in one calendar
\* minute that are k attempts apart leave every stored counter k apart, and
\* the store holds the result of the last one.
C7_NoLostUpdate ==
    LET R == RecordEvents
        Q == RequestEvents
    IN  /\ Len(R) = Len(Q)
        /\ \A i \in DOMAIN R : R[i].by = Q[i].by /\ R[i].at = Q[i].at
        /\ \A i, j \in DOMAIN R :
              (i < j /\ CalendarMinute(R[i].at) = CalendarMinute(R[j].at)) =>
                  /\ R[j].after.minuteCount = R[i].after.minuteCount + (j - i)
                  /\ R[j].after.hourlyCount = R[i].after.hourlyCount + (j - i)
                  /\ R[j].after.dailyCount = R[i].after.dailyCount + (j - i)
        /\ Len(R) > 0 => tracking = <<R[Len(R)].after>>

\* Two calls in flight at once, their attempts interleaved in one minute.
C7_Witness ==
    LET R == RecordEvents
    IN  /\ Len(R) >= 4
        /\ R[1].by # R[2].by
        /\ R[3].by = R[1].by
        /\ R[4].by = R[2].by
        /\ CalendarMinute(R[1].at) = CalendarMinute(R[4].at)
        /\ tracking[1].minuteCount = 4

----------------------------------------------------------------------------
(* Claims about startScan *)

\* C8: scan obtains every series from the local cache only: while a scan
\* is running no upstream request is issued and the usage counters stay as
\* they were when the scan began, whatever the cache contains.
C8_ScanLeavesUpstreamAlone ==
    step = "scanning" =>
        /\ Len(RequestEvents) = scan.before.requests
        /\ tracking = scan.before.tracking

SymbolsIn(list) == {list[k].symbol : k \in DOMAIN list}

\* What a finished scan has done: every symbol of the list was visited, in
\* order; the symbols warned about are skipped, in order, each for a true
\* reason; every other symbol is in the published list with its analysis.
ScanOutcome ==
    step = "results" =>
        LET failing == SymbolsIn(scan.warned)
            kept == SelectSeq(filteredWatchlist, LAMBDA s : s \notin failing)
        IN  /\ scan.visited = filteredWatchlist
            /\ [k \in DOMAIN scan.warned |-> scan.warned[k].symbol]
                  = SelectSeq(filteredWatchlist, LAMBDA s : s \in failing)
            /\ \A k \in DOMAIN scan.warned :
                  LET entry == idb.stocks[scan.warned[k].symbol]
                  IN  \/ scan.warned[k].why = "read"
                      \/ /\ scan.warned[k].why = "nodata"
                         /\ (entry = <<>> \/ entry = <<EmptySeries>>)
                      \/ /\ scan.warned[k].why = "analysis"
                         /\ entry # <<>>
                         /\ AnalysisThrows(entry[1])
            /\ Len(allAnalyses) = Len(kept)
            /\ \A k \in DOMAIN kept :
                  \E a \in DOMAIN allAnalyses :
                      allAnalyses[a] = Analysis(kept[k], idb.stocks[kept[k]][1],
                                                selectedStrategy)

\* startScan has been called and nothing has been shown for it yet.
ScanCalled == scan.pc \in {"reading", "refused"}

\* C9, as stated: for any symbol list and any combination of absent or
\* empty cached series, cache read failures and analysis exceptions, a scan
\* visits every symbol in order, skips the failing ones and eventually
\* reaches the results step with the ranked list.
C9_AnyListScanFinishes ==
    /\ []ScanOutcome
    /\ ScanCalled ~> (step = "results")

\* C9, for non-empty lists: for any non-empty symbol list and any
\* combination of absent or empty cached series, cache read failures and
\* analysis exceptions, a scan visits every symbol in order, skips the
\* failing ones and eventually reaches the results step with the ranked
\* list; no per-symbol failure aborts the batch.
C9_NonEmptyListScanFinishes ==
    /\ []ScanOutcome
    /\ (ScanCalled /\ Len(filteredWatchlist) > 0) ~> (step = "results")

\* A scan of three symbols has finished: two were skipped for different
\* reasons and the third, after them, was analysed.
C9_Witness ==
    /\ step = "results"
    /\ Len(filteredWatchlist) = 3
    /\ Len(scan.warned) = 2
    /\ scan.warned[1].why # scan.warned[2].why
    /\ Len(allAnalyses) = 1
    /\ allAnalyses[1].symbol = filteredWatchlist[3]

Position(list, symbol) == CHOOSE i \in DOMAIN list : list[i] = symbol

\* C10: the list a scan publishes is ordered by non-increasing score, and
\* two analyses of equal score are in the order of their symbols in the
\* scanned list.
C10_RankedStably ==
    \A i, j \in DOMAIN allAnalyses :
        i < j =>
            /\ ~Less(allAnalyses[i].score, allAnalyses[j].score)
            /\ allAnalyses[i].score = allAnalyses[j].score =>
                  Position(filteredWatchlist, allAnalyses[i].symbol)
                      < Position(filteredWatchlist, allAnalyses[j].symbol)

\* Three analyses: the last symbol of the list ranks first, the other two
\* tie behind it.
C10_Witness ==
    /\ step = "results"
    /\ Len(allAnalyses) = 3
    /\ allAnalyses[1].symbol = filteredWatchlist[3]
    /\ Less(allAnalyses[2].score, allAnalyses[1].score)
    /\ allAnalyses[2].score = allAnalyses[3].score
    /\ allAnalyses[2].vcp # allAnalyses[3].vcp

\* C11: scan labels a symbol's trend bullish exactly when its series has at
\* least 51 bars and the last close is above the close 50 bars before the
\* last bar; in every other case the trend is bearish.
C11_BullishIffAboveCloseFiftyBack ==
    \A a \in DOMAIN allAnalyses :
        LET data == chartDataCache[allAnalyses[a].symbol][1]
            n == Len(data)
        IN  allAnalyses[a].trend =
                IF n >= 51 /\ data[n].close > data[n - 50].close
                THEN "bullish" ELSE "bearish"

\* The symbols of a list, and the warnings logged by the scan.
Listed(list) == {list[k] : k \in DOMAIN list}
SymbolsWarned == Listed(scan.warned)

\* The cache holds a series of at least two bars under the symbol.
HasTwoBars(db, symbol) ==
    db.stocks[symbol] # <<>> /\ Len(db.stocks[symbol][1]) >= 2

\* The read of the symbol's series was rejected during the scan.
ReadFailed(symbol) == [symbol |-> symbol, why |-> "read"] \in SymbolsWarned

\* No symbol is listed twice, and the chart-data map holds the cached
\* series of every listed symbol.
ListedOnceWithSeries ==
    /\ \A a, b \in DOMAIN allAnalyses :
          allAnalyses[a].symbol = allAnalyses[b].symbol => a = b
    /\ \A a \in DOMAIN allAnalyses :
          /\ chartDataCache[allAnalyses[a].symbol] # <<>>
          /\ chartDataCache[allAnalyses[a].symbol]
                = idb.stocks[allAnalyses[a].symbol]

\* C37, as stated: the list of a finished scan holds exactly one analysis
\* for each input symbol whose cached series has at least 2 bars and none
\* for any other symbol; no symbol appears twice, and the chart-data map
\* holds a series for every symbol in the list.
C37_OneAnalysisPerSymbolWithTwoBars ==
    step = "results" =>
        /\ SymbolsIn(allAnalyses)
              = {symbol \in Listed(filteredWatchlist) : HasTwoBars(idb, symbol)}
        /\ ListedOnceWithSeries

\* C37, with rejected reads: the list of a finished scan holds exactly one
\* analysis for each input symbol whose series was read from the cache and
\* has at least 2 bars, and none for any other symbol (a symbol whose read
\* was rejected is skipped whatever the cache holds); no symbol appears
\* twice, and the chart-data map holds a series for every symbol in the list.
C37_OneAnalysisPerSymbolReadWithTwoBars ==
    step = "results" =>
        /\ SymbolsIn(allAnalyses)
              = {symbol \in Listed(filteredWatchlist) :
                    HasTwoBars(idb, symbol) /\ ~ReadFailed(symbol)}
        /\ ListedOnceWithSeries

\* A finished scan of three symbols: one listed, one with two cached bars
\* whose read was rejected, one read with a single bar.
C37_Witness ==
    /\ step = "results"
    /\ Len(filteredWatchlist) = 3
    /\ Len(allAnalyses) = 1
    /\ \E symbol \in Listed(filteredWatchlist) :
          HasTwoBars(idb, symbol) /\ ReadFailed(symbol)
    /\ \E symbol \in Listed(filteredWatchlist) :
          /\ idb.stocks[symbol] = <<OneBar>>
          /\ [symbol |-> symbol, why |-> "analysis"] \in SymbolsWarned

----------------------------------------------------------------------------
(* Claims about handleSync (checked under SyncSpec) *)

\* The symbols whose fetch and cache write both succeeded.
Synced == {k \in DOMAIN sync.log : sync.log[k].fetched /\ sync.log[k].written}

\* The loop of handleSync has ended.
LoopEnded == sync.pc \in {"savingMeta", "done", "rejected"}

\* C12: sync processes every symbol of the universe exactly once, in order;
\* the reported success count is the number of symbols for which both the
\* fetch and the cache write succeeded (those, and only those, are in the
\* cache), and a failure of either is followed by the next symbol.
C12_EverySymbolOnceCountsSuccesses ==
    /\ \A k \in DOMAIN sync.log :
          /\ sync.log[k].symbol = NSE_WATCHLIST[k]
          /\ sync.log[k].call = k
          /\ (idb.stocks[sync.log[k].symbol] # <<>>) = sync.log[k].written
    /\ calls = sync.i
    /\ sync.successCount = Cardinality(Synced)
    /\ LoopEnded => Len(sync.log) = Len(NSE_WATCHLIST)
    /\ sync.reported # <<>> => sync.reported[1] = Cardinality(Synced)

\* A finished sync reports one success: the first symbol's fetch failed
\* and the second symbol's cache write failed.
C12_Witness ==
    /\ sync.pc = "done"
    /\ sync.reported = <<1>>
    /\ ~sync.log[1].fetched
    /\ sync.log[2].fetched /\ ~sync.log[2].written
    /\ Synced = {3}

\* The first request of the fetchStockData call with the given number.
FirstRequestOf(call) ==
    LET Q == SelectSeq(RequestEvents,
                       LAMBDA e : e.by = call /\ e.attempt = 1)
    IN  Q[1]

\* C13: after each symbol has been handled, whether it succeeded or
\* failed, a pacing delay of 1.1 s elapses before the first request of the
\* next symbol is issued.
C13_PacingBetweenSymbols ==
    \A k \in 2..calls :
        /\ k - 1 \in DOMAIN sync.log
        /\ FirstRequestOf(k).at >= sync.log[k - 1].handledAt + PacingDelay

\* The second symbol's request goes out exactly 1.1 s after the first
\* symbol failed, the third's exactly 1.1 s after the second was stored.
C13_Witness ==
    /\ calls = 3
    /\ ~sync.log[1].fetched
    /\ sync.log[2].written
    /\ FirstRequestOf(2).at = sync.log[1].handledAt + PacingDelay
    /\ FirstRequestOf(3).at = sync.log[2].handledAt + PacingDelay

\* C14: during a sync run symbols are processed strictly sequentially: at
\* most one upstream request is outstanding at any time (a request follows
\* the answer to the one before it), and the request for symbol i+1 is
\* issued only after symbol i's fetch has settled, its cache write, if
\* any, has completed, and its pacing delay has elapsed.
C14_StrictlySequential ==
    LET Q == RequestEvents
    IN  /\ Cardinality({c \in Callers : fetch[c].pc = "awaitResponse"}) <= 1
        /\ \A j \in 2..Len(Q) :
              IF Q[j].by = Q[j - 1].by
              THEN /\ Q[j].answered = TooManyRequests
                   /\ Q[j].answeredAt >= Q[j - 1].at
                   /\ Q[j].answeredAt <= Q[j].at
              ELSE /\ Q[j].by = Q[j - 1].by + 1
                   /\ Q[j - 1].by \in DOMAIN sync.log
                   /\ sync.log[Q[j - 1].by].settledAt >= Q[j - 1].at
                   /\ sync.log[Q[j - 1].by].settledAt
                         <= sync.log[Q[j - 1].by].handledAt
                   /\ sync.log[Q[j - 1].by].handledAt + PacingDelay
                         <= Q[j].at
        /\ sync.pc \in {"fetching", "pacing"} => sync.write.state = "none"
        /\ sync.pc = "fetching" => Len(sync.log) = sync.i - 1

\* The third symbol's request is outstanding; the second symbol took a
\* retry and was stored, after the first one's fetch failed.
C14_Witness ==
    /\ sync.pc = "fetching"
    /\ sync.i = 3
    /\ fetch["sync"].pc = "awaitResponse"
    /\ ~sync.log[1].fetched
    /\ sync.log[2].written
    /\ sync.log[2].attempts = 2

\* C15: when sync completes, the metadata entry lastUpdated has been
\* written exactly once, after the last symbol was processed and never
\* before, and it is written even when no symbol succeeded.
C15_LastUpdatedOnceAtTheEnd ==
    /\ sync.pc = "done" =>
          /\ sync.metaWrites = 1
          /\ idb.metadata["lastUpdated"] = <<sync.timestamp>>
          /\ Len(sync.log) = Len(NSE_WATCHLIST)
          /\ sync.timestamp >= sync.log[Len(sync.log)].handledAt
    /\ sync.pc # "done" =>
          /\ sync.metaWrites = 0
          /\ idb.metadata["lastUpdated"] = <<>>

\* A sync has completed without a single success, and lastUpdated is set.
C15_Witness ==
    /\ sync.pc = "done"
    /\ sync.reported = <<0>>
    /\ idb.metadata["lastUpdated"] # <<>>
    /\ \A symbol \in Symbols : idb.stocks[symbol] = <<>>

\* C16: a failure of a cache operation (the series read in scan, the
\* series write in sync, the lastUpdated write at the end of sync) is never
\* fatal to the whole run: once handleSync has ended it has reported its
\* count and the App is back on the landing step.
C16_CacheFailureNeverFatal ==
    sync.pc \in {"done", "rejected"} =>
        /\ sync.reported # <<>>
        /\ step = "landing"

\* C17: a stalled upstream request does not block a sync forever: once a
\* sync has started, every symbol is eventually attempted.
C17_StalledRequestDoesNotBlock ==
    (sync.pc = "fetching") ~> (calls = Len(NSE_WATCHLIST))

\* Three symbols are synced; the second is answered 429 twice and then
\* succeeds, the others succeed at once.
SecondSymbolThrottledTwice ==
    /\ sync.pc = "done"
    /\ \A k \in DOMAIN sync.log : sync.log[k].fetched /\ sync.log[k].written
    /\ [k \in DOMAIN sync.log |-> sync.log[k].attempts] = <<1, 3, 1>>

\* C18: syncing 3 symbols where the 2nd answers HTTP 429 twice and then
\* succeeds reports a success count of 3 and spends at least
\* 1.1 * 3 + 2 + 4 = 9.3 seconds, with exactly 5 upstream requests and 5
\* record() calls.
C18_ThrottledSyncTakesNinePointThreeSeconds ==
    SecondSymbolThrottledTwice =>
        /\ sync.reported = <<3>>
        /\ sync.timestamp - sync.startedAt
              >= 3 * PacingDelay + FirstBackoff + SecondBackoff
        /\ Len(RequestEvents) = 5
        /\ Len(RecordEvents) = 5

\* Such a sync, with an upstream that answers at once: 9.3 s exactly.
C18_Witness ==
    /\ SecondSymbolThrottledTwice
    /\ sync.timestamp - sync.startedAt = 9300

\* The documented quota: 60 requests in a minute.
QuotaPerMinute == 60

\* C19: during a single sync run no more than 60 upstream requests are
\* issued in any 60-second window, retries included, because consecutive
\* requests are always separated by a pacing delay (1.1 s) or a backoff
\* delay (2 s or 4 s).  With requests at least 1.1 s apart a window of k
\* seconds holds at most k of them, for every k up to 60: k + 1 requests
\* never fit in k seconds (requests i and j lie more than min(j - i, 60)
\* seconds apart, which covers every shorter window too).
C19_AtMostSixtyRequestsPerMinute ==
    LET Q == RequestEvents
    IN  /\ \A j \in 2..Len(Q) :
              Q[j].at - Q[j - 1].at >=
                  IF Q[j].by = Q[j - 1].by THEN RetryDelay(Q[j - 1].attempt)
                  ELSE PacingDelay
        /\ \A j \in DOMAIN Q :
              \A i \in 1..(j - 1) :
                  LET k == IF j - i <= QuotaPerMinute THEN j - i
                           ELSE QuotaPerMinute
                  IN  Q[j].at - Q[i].at > k * MsPerSecond

\* Three requests as close as they get: 1.1 s apart, so that a window of
\* three seconds holds three requests.
C19_Witness ==
    LET Q == RequestEvents
    IN  /\ Len(Q) >= 3
        /\ Q[2].at - Q[1].at = PacingDelay
        /\ Q[3].at - Q[1].at = 2 * PacingDelay

----------------------------------------------------------------------------
(* Claims about scan and sync together (checked under AppSpec) *)

\* C21: a symbol's cached series changes only through a successful fetch
\* of that symbol during sync: the step that changes the entry of a symbol
\* is the save of the series that the sync's fetch of that very symbol
\* returned, the new entry is that whole series, no step changes the
\* entry of a symbol whose fetch failed or of any other symbol, and no
\* step of a scan changes the cache.
C21_CacheChangesOnlyBySuccessfulSync ==
    [][/\ \A symbol \in Symbols :
             idb'.stocks[symbol] # idb.stocks[symbol] =>
                 /\ step = "syncing"
                 /\ sync.pc = "saving"
                 /\ NSE_WATCHLIST[sync.i] = symbol
                 /\ fetch["sync"].pc = "returned"
                 /\ fetch["sync"].symbol = symbol
                 /\ idb'.stocks[symbol] = <<fetch["sync"].data>>
       /\ (step = "scanning" \/ scan' # scan) => idb' = idb]_vars

\* A sync run has ended after a scan: one symbol's fetch failed and its
\* entry is the one the cache started with, another symbol's series was
\* fetched and stored, and the scan has read every symbol.
C21_Witness ==
    /\ sync.pc = "done"
    /\ scan.pc = "done"
    /\ Len(scan.visited) = Len(NSE_WATCHLIST)
    /\ \E k \in DOMAIN sync.log :
          /\ ~sync.log[k].fetched
          /\ idb.stocks[sync.log[k].symbol] = FullDb.stocks[sync.log[k].symbol]
    /\ \E k \in DOMAIN sync.log :
          /\ sync.log[k].written
          /\ idb.stocks[sync.log[k].symbol] #
                 FullDb.stocks[sync.log[k].symbol]

----------------------------------------------------------------------------
(* Claims about the AI rationale (checked under RationaleSpec) *)

\* The request made for the current selection is still in flight.
SelectionPending == \E request \in ai.pending : request.id = ai.issued

\* C38: once no rationale request is pending, the displayed rationale is
\* the one computed for the currently selected symbol, and the loading flag
\* stays set while the request of the current selection is pending (a late
\* answer for an earlier selection neither replaces the rationale nor
\* clears the flag).
C38_RationaleIsForCurrentSelection ==
    (step = "results" /\ EffectsFlushed /\ currentAnalysis # <<>>) =>
        /\ ai.pending = {} =>
              /\ ai.rationale # <<>>
              /\ ai.rationale[1].symbol = selectedSymbol[1]
        /\ SelectionPending => ai.loading

----------------------------------------------------------------------------
(* Claims about the pattern engine (checked under EngineSpec) *)

\* The data model of a series: positive prices, volume >= 0, unique
\* ascending dates.
DataModel(data) ==
    /\ \A i \in DOMAIN data :
          /\ data[i].open > 0 /\ data[i].high > 0
          /\ data[i].low > 0 /\ data[i].close > 0
          /\ data[i].volume >= 0
    /\ \A i, j \in DOMAIN data : i < j => data[i].date < data[j].date

\* C23: for every series that satisfies the data model, detectOrderBlocks
\* never emits a block whose top is below its bottom.
C23_NoBlockWithTopBelowBottom ==
    DataModel(engine.data) =>
        \A r \in DOMAIN engine.runs :
            \A b \in DOMAIN engine.runs[r].orderBlocks :
                engine.runs[r].orderBlocks[b].top >=
                    engine.runs[r].orderBlocks[b].bottom

\* The run of the series as it stands, once it has been analysed.
LastRun == engine.runs[Len(engine.runs)]

\* The same block, whatever its mitigation.
SameBlock(a, b) ==
    /\ a.type = b.type /\ a.top = b.top /\ a.bottom = b.bottom
    /\ a.startTime = b.startTime /\ a.strength = b.strength

\* C24: mitigation is monotonic under extension: when a series is extended
\* by further bars, every block found in the shorter series is found in
\* the longer one with the same type, top, bottom, startTime and strength,
\* and a block mitigated in the shorter series is mitigated in the longer.
C24_MitigationMonotonicUnderExtension ==
    (engine.analyzed /\ DataModel(engine.data)) =>
        \A r \in 1..(Len(engine.runs) - 1) :
            \A b \in DOMAIN engine.runs[r].orderBlocks :
                LET old == engine.runs[r].orderBlocks[b]
                IN  \E c \in DOMAIN LastRun.orderBlocks :
                        LET new == LastRun.orderBlocks[c]
                        IN  /\ SameBlock(old, new)
                            /\ old.isMitigated => new.isMitigated

\* A block found unmitigated in a series is mitigated by a bar appended
\* later, and stays mitigated when one more bar is appended.
C24_Witness ==
    \E r, q, t \in DOMAIN engine.runs :
        /\ r < q /\ q < t
        /\ \E b \in DOMAIN engine.runs[r].orderBlocks :
              \E c \in DOMAIN engine.runs[q].orderBlocks :
                  \E e \in DOMAIN engine.runs[t].orderBlocks :
                      /\ SameBlock(engine.runs[r].orderBlocks[b],
                                   engine.runs[q].orderBlocks[c])
                      /\ SameBlock(engine.runs[q].orderBlocks[c],
                                   engine.runs[t].orderBlocks[e])
                      /\ ~engine.runs[r].orderBlocks[b].isMitigated
                      /\ engine.runs[q].orderBlocks[c].isMitigated
                      /\ engine.runs[t].orderBlocks[e].isMitigated

\* Forty-five flat bars (open = close = 100, no volatility) followed by a
\* five-bar rally to 115.
FlatThenRally(data) ==
    /\ Len(data) = 50
    /\ SubSeq(data, 1, 45) = Quiet(45)
    /\ \A i \in 46..50 : data[i].close > data[i - 1].close
    /\ data[50].close = 115

\* C25: over the 50-bar window made of a 45-bar flat series and a 5-bar
\* rally to 115, detectOrderBlocks reports exactly one block, which is
\* bullish, has a strength of about 15.0 and is not mitigated.
C25_FlatThenRallyGivesOneBullishBlock ==
    (engine.analyzed /\ FlatThenRally(engine.data)) =>
        LET obs == engine.runs[Len(engine.runs)].orderBlocks
        IN  /\ Len(obs) = 1
            /\ obs[1].type = "bullish"
            /\ Less(Fin(29, 2), obs[1].strength)
            /\ Less(obs[1].strength, Fin(31, 2))
            /\ ~obs[1].isMitigated

\* clamp(0, 100, x) of a finite x.
Clamp(x) ==
    IF Less(x, Zero) THEN Zero
    ELSE IF Less(Fin(100, 1), x) THEN Fin(100, 1) ELSE x

\* C27: for every series, detectVCP returns a defined numeric
\* tightnessScore within [0,100], equal to (1 - contractionRatio) * 200
\* clamped to that range; when the older window is empty or has a zero
\* average range no undefined ratio reaches the result and isVCP is false.
C27_TightnessAlwaysDefinedAndClamped ==
    \A r \in DOMAIN engine.runs :
        LET vcp == engine.runs[r].vcp
            ratio == vcp.contractionRatio
        IN  /\ vcp.tightnessScore.k = "fin"
            /\ ~Less(vcp.tightnessScore, Zero)
            /\ ~Less(Fin(100, 1), vcp.tightnessScore)
            /\ ratio.k = "fin" =>
                  vcp.tightnessScore =
                      Clamp(Fin(200 * (ratio.d - ratio.n), ratio.d))
            /\ ratio.k # "fin" => ~vcp.isVCP

\* The shortest series detectOrderBlocks can find a block in: lookback
\* bars, the candidate and five bars after it.
MinBarsForBlocks == lookback + 6

\* C28: a series too short for a detector is handled without crashing:
\* for every series with fewer than 26 bars, the empty series included,
\* detectOrderBlocks returns an empty list instead of raising, and
\* detectVCP and calculateFundamentalScore return a result instead of
\* raising.
C28_ShortSeriesNeverRaise ==
    \A r \in DOMAIN engine.runs :
        engine.runs[r].n < MinBarsForBlocks =>
            /\ ~engine.runs[r].orderBlocksThrows
            /\ engine.runs[r].orderBlocks = <<>>
            /\ ~engine.runs[r].fundamentalThrows

\* The series run r was given: the first bars of the series as it stands.
InputOf(r) == SubSeq(engine.data, 1, engine.runs[r].n)

\* The position in the series of the bar dated t.
OriginOf(data, t) == CHOOSE k \in DOMAIN data : data[k].date = t

\* C31: every block emitted by detectOrderBlocks originates from a bar
\* whose index i satisfies 20 <= i <= length - 6 (positions 21 to
\* length - 5): none comes from the first 20 or the final 5 bars, each
\* startTime is the date of such a bar, and each bar yields at most one
\* bullish and at most one bearish block.
C31_BlocksOriginateWithinWindow ==
    engine.analyzed =>
        LET obs == LastRun.orderBlocks
            data == engine.data
        IN  /\ \A b \in DOMAIN obs :
                  \E k \in (lookback + 1)..(Len(data) - 5) :
                      data[k].date = obs[b].startTime
            /\ \A b, c \in DOMAIN obs :
                  (/\ obs[b].startTime = obs[c].startTime
                   /\ obs[b].type = obs[c].type) => b = c

\* A 26-bar series with a block at its only eligible bar, the 21st, which
\* is both the first bar after the lookback and the sixth from the end.
C31_Witness ==
    \E r \in DOMAIN engine.runs :
        /\ engine.runs[r].n = lookback + 6
        /\ Len(engine.runs[r].orderBlocks) = 1
        /\ engine.runs[r].orderBlocks[1].startTime =
               InputOf(r)[lookback + 1].date

\* Some bar strictly after position k breaches the block: a low under
\* the bottom of a bullish block, a high over the top of a bearish one.
BreachedAfter(data, k, ob) ==
    \E j \in (k + 1)..Len(data) :
        IF ob.type = "bullish" THEN data[j].low < ob.bottom
        ELSE data[j].high > ob.top

\* Some bar after position k touches the boundary without crossing it.
TouchedAfter(data, k, ob) ==
    \E j \in (k + 1)..Len(data) :
        IF ob.type = "bullish" THEN data[j].low = ob.bottom
        ELSE data[j].high = ob.top

HigherCloses(window) ==
    Cardinality({i \in 2..Len(window) :
                    window[i].close > window[i - 1].close})

\* C33: calculateFundamentalScore computes trend quality over the N - 1
\* daily returns of the window (the first bar contributes none):
\* trendQuality = 100 * (number of positive returns) / (N - 1), so a
\* window in which every close is above the previous one has
\* trendQuality 100.
C33_TrendQualityOverReturnsOnly ==
    \A r \in DOMAIN engine.runs :
        LET window == InputOf(r)
            N == Len(window)
        IN  (N >= 2 /\ N <= 60) =>
                /\ engine.runs[r].trendQuality =
                       Divide(Fin(100 * HigherCloses(window), 1),
                              Fin(N - 1, 1))
                /\ HigherCloses(window) = N - 1 =>
                       engine.runs[r].trendQuality = Fin(100, 1)

----------------------------------------------------------------------------
(* Claims about the strategy score (checked under ScoreSpec) *)

\* x is a number within [0, 100].
InPercentRange(x) ==
    ~IsNaN(x) /\ ~Less(x, Zero) /\ ~Less(Fin(100, 1), x)

\* C26: for both defined selectors and every analysis whose tightnessScore
\* is in [0,100], whatever the order blocks, the trend and the current
\* price, calculateStrategyScore returns a value in [0,100].
C26_StrategyScoreWithinRange ==
    \A k \in DOMAIN engine.scored :
        (/\ engine.scored[k].strategy \in StrategyIDs
         /\ InPercentRange(engine.scored[k].analysis.vcp.tightnessScore)) =>
            InPercentRange(engine.scored[k].score)

\* The highest possible vcp_breakout score: 60 + 0.3 * 100 + 10.
C26_Witness ==
    \E k \in DOMAIN engine.scored :
        /\ engine.scored[k].strategy = "vcp_breakout"
        /\ engine.scored[k].analysis.vcp.isVCP
        /\ engine.scored[k].analysis.vcp.tightnessScore = Fin(100, 1)
        /\ engine.scored[k].analysis.trend = "bullish"
        /\ engine.scored[k].score = Fin(100, 1)

\* The cache holds a series of at least one bar for the symbol.
HoldsBars(db, symbol) ==
    db.stocks[symbol] # <<>> /\ Len(db.stocks[symbol][1]) > 0

\* C36: after a sync every symbol counted as a success has a non-empty
\* series stored in the cache, and a sync never replaces a symbol's
\* non-empty cached series by an empty one.
C36_SyncStoresOnlyNonEmptySeries ==
    /\ [](sync.pc = "done" =>
             \A k \in DOMAIN sync.log :
                 sync.log[k].written => HoldsBars(idb, sync.log[k].symbol))
    /\ [][\A symbol \in Symbols :
             HoldsBars(idb, symbol) => HoldsBars(idb', symbol)]_vars

----------------------------------------------------------------------------
(* Claims about the cache (checked under CacheSpec) *)

\* C20: the cache is a key-value map: after any sequence of putSeries,
\* putMeta and clear, getSeries(s) returns exactly the series of the latest
\* putSeries(s, .) since the last clear, and absent if there is none, and
\* getMeta(k) returns exactly the latest value put under k, for every
\* stored value.
C20_CacheRoundTrip ==
    /\ \A symbol \in Symbols : getStockData(idb, symbol) = kv.stocks[symbol]
    /\ \A key \in MetaKeys : getMetadata(idb, key) = kv.metadata[key]

====
